---- MODULE Spec2Model ----
(***************************************************************************)
(* CEDHBC case-management client: the case repository (ExpedientesContext, *)
(* whose source is the second half of src/src/context/AuthContext.tsx),    *)
(* the field normalizers of lib/utils (src/unnamed/part_006), the          *)
(* notification centre (src/README.md, src/unnamed/part_000) and the       *)
(* productivity store (src/src/context/ProductivityContext.tsx), with the  *)
(* backend tables of src/supabase/migration.sql.                           *)
(*                                                                         *)
(* Strings are sequences of one-character strings, so that the             *)
(* normalizers are computed character by character as the code does.       *)
(***************************************************************************)
EXTENDS Integers, Sequences, FiniteSets, TLC

\* ------------------------------------------------------------------------
\* Bounds of the model (not program constants)
\* ------------------------------------------------------------------------
\* rows the expedientes table may hold
MaxRows == 2
\* fetchExpedientes calls of the effect and the timer that may be in flight at once
MaxFetches == 1

\* ------------------------------------------------------------------------
\* lib/utils: strings
\* ------------------------------------------------------------------------
Min2(a, b) == IF a < b THEN a ELSE b

DigitChars == <<"0","1","2","3","4","5","6","7","8","9">>

IsDigit(c) == \E i \in 1..10 : DigitChars[i] = c

\* the \s class of the regular expressions, on the characters the model uses
IsSpace(c) == c = " "

\* String.prototype.toUpperCase, one character
ToUpperChar(c) ==
  LET LowerChars == <<"a","b","c","d","e","f","g","h","i","j","k","l","m",
                   "n","o","p","q","r","s","t","u","v","w","x","y","z">>
      UpperChars == <<"A","B","C","D","E","F","G","H","I","J","K","L","M",
                   "N","O","P","Q","R","S","T","U","V","W","X","Y","Z">>
  IN IF \E i \in 1..26 : LowerChars[i] = c
     THEN UpperChars[CHOOSE i \in 1..26 : LowerChars[i] = c]
     ELSE c

toUpperCase(s) == [i \in 1..Len(s) |-> ToUpperChar(s[i])]

\* String.prototype.slice(0, n)
slice0(s, n) == SubSeq(s, 1, Min2(Len(s), IF n < 0 THEN 0 ELSE n))

\* value.replace(/\s+/g, ' '): every run of whitespace becomes one space
RECURSIVE CollapseSpaces(_)
CollapseSpaces(s) ==
  IF s = <<>> THEN <<>>
  ELSE IF IsSpace(Head(s))
       THEN IF Len(s) > 1 /\ IsSpace(s[2])
            THEN CollapseSpaces(Tail(s))
            ELSE <<" ">> \o CollapseSpaces(Tail(s))
       ELSE <<Head(s)>> \o CollapseSpaces(Tail(s))

\* String.prototype.trim
RECURSIVE TrimLeft(_)
TrimLeft(s) ==
  IF s # <<>> /\ IsSpace(Head(s)) THEN TrimLeft(Tail(s)) ELSE s

RECURSIVE TrimRight(_)
TrimRight(s) ==
  IF s # <<>> /\ IsSpace(s[Len(s)]) THEN TrimRight(SubSeq(s, 1, Len(s) - 1)) ELSE s

trim(s) == TrimRight(TrimLeft(s))

normalizeWhitespace(value) == trim(CollapseSpaces(value))

\* value.replace(/[\s/]+/g, '-'): every run of whitespace or slashes becomes one hyphen
RECURSIVE ReplaceSepRuns(_)
ReplaceSepRuns(s) ==
  IF s = <<>> THEN <<>>
  ELSE IF IsSpace(Head(s)) \/ Head(s) = "/"
       THEN IF Len(s) > 1 /\ (IsSpace(s[2]) \/ s[2] = "/")
            THEN ReplaceSepRuns(Tail(s))
            ELSE <<"-">> \o ReplaceSepRuns(Tail(s))
       ELSE <<Head(s)>> \o ReplaceSepRuns(Tail(s))

\* a normalizeFolio that leaves the case of the letters
normalizeFolioKeepCase(value) == ReplaceSepRuns(normalizeWhitespace(value))

normalizeFolio(value) == ReplaceSepRuns(toUpperCase(normalizeWhitespace(value)))

\* /^CEDHBC[-/][0-9]{4}[-/][0-9]{3,6}$/i on normalizeWhitespace(value)
isValidFolio(value) ==
  LET t == normalizeWhitespace(value) IN
    /\ Len(t) >= 15
    /\ Len(t) <= 18
    /\ toUpperCase(SubSeq(t, 1, 6)) = <<"C","E","D","H","B","C">>
    /\ t[7] \in {"-", "/"}
    /\ \A i \in 8..11 : IsDigit(t[i])
    /\ t[12] \in {"-", "/"}
    /\ \A i \in 13..Len(t) : IsDigit(t[i])

truncateText(value, maxLength) == slice0(normalizeWhitespace(value), maxLength)

\* FIELD_LIMITS
LimitFolio == 32
LimitTipoDerecho == 120
LimitAutoridad == 160
LimitVisitador == 120
LimitNotas == 2500
LimitMesRegistro == 60

\* ------------------------------------------------------------------------
\* lib/utils: dates
\* ------------------------------------------------------------------------
\* A date string is held in structured form: the calendar date it denotes and
\* the number of digits its year is written with (w). "0999-06-14" has w = 4,
\* "999-06-14" has w = 3; only the first is an ISO date string.
\* k = "absent" is undefined/null, "empty" is '', "junk" is a string that
\* new Date() cannot parse.
NullDate == [k |-> "absent", y |-> 0, m |-> 0, d |-> 0, w |-> 0]

JunkDate == [k |-> "junk", y |-> 0, m |-> 0, d |-> 0, w |-> 0]

DateS(y, m, d, w) == [k |-> "date", y |-> y, m |-> m, d |-> d, w |-> w]

RECURSIVE Digits(_)
Digits(n) ==
  IF n < 10 THEN <<DigitChars[n + 1]>>
  ELSE Digits(n \div 10) \o <<DigitChars[(n % 10) + 1]>>

\* String(n).padStart(width, '0')
RECURSIVE padStart(_, _)
padStart(s, width) == IF Len(s) >= width THEN s ELSE padStart(<<"0">> \o s, width)

\* the characters of a date string
Render(ds) ==
  padStart(Digits(ds.y), ds.w) \o <<"-">> \o padStart(Digits(ds.m), 2)
    \o <<"-">> \o padStart(Digits(ds.d), 2)

\* UTF-16 code unit of the characters a date string is made of
CharCode(c) ==
  IF c = "-" THEN 45 ELSE 47 + (CHOOSE i \in 1..10 : DigitChars[i] = c)

\* the < of two JavaScript strings: lexicographic on code units
RECURSIVE StrLess(_, _)
StrLess(a, b) ==
  IF b = <<>> THEN FALSE
  ELSE IF a = <<>> THEN TRUE
  ELSE IF CharCode(Head(a)) < CharCode(Head(b)) THEN TRUE
  ELSE IF CharCode(Head(a)) > CharCode(Head(b)) THEN FALSE
  ELSE StrLess(Tail(a), Tail(b))

DateStrLess(a, b) == StrLess(Render(a), Render(b))

\* the calendar order of two dates
DateNum(ds) == ds.y * 10000 + ds.m * 100 + ds.d

\* The local calendar date of the run, and the dates new Date().toISOString()
\* (a UTC date) can show at that moment: the same day, the day before (zones
\* east of UTC, early morning) or the day after (zones west of UTC, evening).
TodayLocal == DateS(2026, 6, 15, 4)

UtcTodayChoices == {DateS(2026, 6, 14, 4), DateS(2026, 6, 15, 4), DateS(2026, 6, 16, 4)}

\* How the JavaScript engine's fallback parser treats a date string that is
\* not in the ISO format (a year of fewer than four digits): dateOnly for
\* "Y-MM-DD", dateTime for "Y-MM-DDT00:00:00". ECMAScript leaves both to the
\* implementation.
Engines == [dateOnly : BOOLEAN, dateTime : BOOLEAN]

\* normalizeDateOnly: new Date(value), then `${year}-${MM}-${DD}` of its UTC
\* fields; the year is not padded.
normalizeDateOnly(value, eng) ==
  IF value.k # "date" THEN NullDate
  ELSE IF value.w = 4 \/ eng.dateOnly
       THEN DateS(value.y, value.m, value.d, Len(Digits(value.y)))
       ELSE NullDate

\* an isFutureDate that lets every date through
isFutureDateNever(value, eng) == FALSE

\* isFutureDate: local midnight of the normalized date after local midnight of today
isFutureDate(value, eng) ==
  LET normalized == normalizeDateOnly(value, eng) IN
    IF normalized.k # "date" THEN FALSE
    ELSE IF normalized.w = 4 \/ eng.dateTime
         THEN DateNum(normalized) > DateNum(TodayLocal)
         ELSE FALSE

\* toLocaleDateString('es-MX', { month: 'long', year: 'numeric' })
MonthYearLabel(m, y) ==
  LET MonthNames == <<
      <<"e","n","e","r","o">>,
      <<"f","e","b","r","e","r","o">>,
      <<"m","a","r","z","o">>,
      <<"a","b","r","i","l">>,
      <<"m","a","y","o">>,
      <<"j","u","n","i","o">>,
      <<"j","u","l","i","o">>,
      <<"a","g","o","s","t","o">>,
      <<"s","e","p","t","i","e","m","b","r","e">>,
      <<"o","c","t","u","b","r","e">>,
      <<"n","o","v","i","e","m","b","r","e">>,
      <<"d","i","c","i","e","m","b","r","e">> >>
  IN MonthNames[m] \o <<" ","d","e"," ">> \o Digits(y)

\* getMesRegistro: the label of new Date(`${dateStr}T00:00:00`), or of the
\* current date when that is an invalid date
getMesRegistro(dateStr, eng) ==
  IF dateStr.k = "date" /\ (dateStr.w = 4 \/ eng.dateTime)
  THEN MonthYearLabel(dateStr.m, dateStr.y)
  ELSE MonthYearLabel(TodayLocal.m, TodayLocal.y)

\* ------------------------------------------------------------------------
\* ExpedientesContext: record-level validators
\* ------------------------------------------------------------------------
ESTADOS == <<"Admitida", "En integración", "En conciliación", "Resuelta", "Archivada">>

IsEstado(e) == \E i \in 1..Len(ESTADOS) : ESTADOS[i] = e

\* an absent (undefined) text field, estado field and error
Undef == <<"undefined">>

UndefEstado == "undefined"

NoError == "null"

\* the update payload {} and the null payload of a failed validation
EmptyPayload ==
  [folio |-> Undef, fecha_presentacion |-> NullDate, tipo_derecho |-> Undef,
   autoridad_responsable |-> Undef, visitador_asignado |-> Undef,
   estado |-> UndefEstado, fecha_ultimo_movimiento |-> NullDate,
   notas_seguimiento |-> Undef, mes_registro |-> Undef]

Rejected(msg) == [payload |-> EmptyPayload, error |-> msg]

Accepted(payload) == [payload |-> payload, error |-> NoError]

\* x ?? y
OrElse(x, y, absent) == IF x = absent THEN y ELSE x

normalizeCreatePayload(data, eng) ==
  LET folio == slice0(normalizeFolio(data.folio), LimitFolio)
      fechaPresentacion == normalizeDateOnly(data.fecha_presentacion, eng)
      tipoDerecho == truncateText(data.tipo_derecho, LimitTipoDerecho)
      autoridad == truncateText(data.autoridad_responsable, LimitAutoridad)
      visitador == truncateText(data.visitador_asignado, LimitVisitador)
      estado == OrElse(data.estado, "Admitida", UndefEstado)
      notas == slice0(trim(OrElse(data.notas_seguimiento, <<>>, Undef)), LimitNotas)
      fechaMovimiento ==
        normalizeDateOnly(OrElse(data.fecha_ultimo_movimiento, fechaPresentacion, NullDate), eng)
      derived == getMesRegistro(fechaPresentacion, eng)
      given == truncateText(OrElse(data.mes_registro, derived, Undef), LimitMesRegistro)
      mesRegistro == IF given = <<>> THEN derived ELSE given
  IN
    IF folio = <<>> THEN Rejected("El folio es obligatorio.")
    ELSE IF ~isValidFolio(folio) THEN Rejected("El folio debe usar formato CEDHBC-AAAA-000.")
    ELSE IF fechaPresentacion.k # "date" THEN Rejected("La fecha de presentacion es invalida.")
    ELSE IF isFutureDate(fechaPresentacion, eng)
      THEN Rejected("La fecha de presentacion no puede ser futura.")
    ELSE IF tipoDerecho = <<>> THEN Rejected("El tipo de derecho es obligatorio.")
    ELSE IF autoridad = <<>> THEN Rejected("La autoridad responsable es obligatoria.")
    ELSE IF visitador = <<>> THEN Rejected("El visitador asignado es obligatorio.")
    ELSE IF ~IsEstado(estado) THEN Rejected("El estado seleccionado no es valido.")
    ELSE IF fechaMovimiento.k # "date"
      THEN Rejected("La fecha de ultimo movimiento es invalida.")
    ELSE IF isFutureDate(fechaMovimiento, eng)
      THEN Rejected("La fecha de ultimo movimiento no puede ser futura.")
    ELSE IF DateStrLess(fechaMovimiento, fechaPresentacion)
      THEN Rejected("La fecha de ultimo movimiento no puede ser anterior a la fecha de presentacion.")
    ELSE Accepted(
      [folio |-> folio, fecha_presentacion |-> fechaPresentacion,
       tipo_derecho |-> tipoDerecho, autoridad_responsable |-> autoridad,
       visitador_asignado |-> visitador, estado |-> estado,
       fecha_ultimo_movimiento |-> fechaMovimiento, notas_seguimiento |-> notas,
       mes_registro |-> mesRegistro])

\* The update validator goes through the fields in the order of the source;
\* each Upd* step is the payload after that field, or the error it returned.
UpdFolio(data) ==
  LET folio == slice0(normalizeFolio(data.folio), LimitFolio) IN
    IF data.folio = Undef THEN Accepted(EmptyPayload)
    ELSE IF folio = <<>> THEN Rejected("El folio no puede quedar vacio.")
    ELSE IF ~isValidFolio(folio) THEN Rejected("El folio debe usar formato CEDHBC-AAAA-000.")
    ELSE Accepted([EmptyPayload EXCEPT !.folio = folio])

UpdFechaPresentacion(data, eng, prev) ==
  LET fecha == normalizeDateOnly(data.fecha_presentacion, eng) IN
    IF prev.error # NoError \/ data.fecha_presentacion = NullDate THEN prev
    ELSE IF fecha.k # "date" THEN Rejected("La fecha de presentacion es invalida.")
    ELSE IF isFutureDate(fecha, eng) THEN Rejected("La fecha de presentacion no puede ser futura.")
    ELSE Accepted([prev.payload EXCEPT !.fecha_presentacion = fecha,
                                       !.mes_registro = getMesRegistro(fecha, eng)])

UpdTipoDerecho(data, prev) ==
  LET tipoDerecho == truncateText(data.tipo_derecho, LimitTipoDerecho) IN
    IF prev.error # NoError \/ data.tipo_derecho = Undef THEN prev
    ELSE IF tipoDerecho = <<>> THEN Rejected("El tipo de derecho no puede quedar vacio.")
    ELSE Accepted([prev.payload EXCEPT !.tipo_derecho = tipoDerecho])

UpdAutoridad(data, prev) ==
  LET autoridad == truncateText(data.autoridad_responsable, LimitAutoridad) IN
    IF prev.error # NoError \/ data.autoridad_responsable = Undef THEN prev
    ELSE IF autoridad = <<>> THEN Rejected("La autoridad responsable no puede quedar vacia.")
    ELSE Accepted([prev.payload EXCEPT !.autoridad_responsable = autoridad])

UpdVisitador(data, prev) ==
  LET visitador == truncateText(data.visitador_asignado, LimitVisitador) IN
    IF prev.error # NoError \/ data.visitador_asignado = Undef THEN prev
    ELSE IF visitador = <<>> THEN Rejected("El visitador asignado no puede quedar vacio.")
    ELSE Accepted([prev.payload EXCEPT !.visitador_asignado = visitador])

UpdEstado(data, prev) ==
  IF prev.error # NoError \/ data.estado = UndefEstado THEN prev
  ELSE IF ~IsEstado(data.estado) THEN Rejected("El estado seleccionado no es valido.")
  ELSE Accepted([prev.payload EXCEPT !.estado = data.estado])

UpdNotas(data, prev) ==
  IF prev.error # NoError \/ data.notas_seguimiento = Undef THEN prev
  ELSE Accepted([prev.payload EXCEPT
                   !.notas_seguimiento = slice0(trim(data.notas_seguimiento), LimitNotas)])

UpdFechaMovimiento(data, eng, prev) ==
  LET fecha == normalizeDateOnly(data.fecha_ultimo_movimiento, eng) IN
    IF prev.error # NoError \/ data.fecha_ultimo_movimiento = NullDate THEN prev
    ELSE IF fecha.k # "date" THEN Rejected("La fecha de ultimo movimiento es invalida.")
    ELSE IF isFutureDate(fecha, eng)
      THEN Rejected("La fecha de ultimo movimiento no puede ser futura.")
    ELSE Accepted([prev.payload EXCEPT !.fecha_ultimo_movimiento = fecha])

UpdMesRegistro(data, prev) ==
  LET mesRegistro == truncateText(data.mes_registro, LimitMesRegistro) IN
    IF prev.error # NoError \/ data.mes_registro = Undef THEN prev
    ELSE IF mesRegistro = <<>> THEN Rejected("El mes de registro no puede quedar vacio.")
    ELSE Accepted([prev.payload EXCEPT !.mes_registro = mesRegistro])

\* the fields whose change advances the last-movement date
shouldTouchLastMovement(payload) ==
  /\ payload.fecha_ultimo_movimiento = NullDate
  /\ \/ payload.estado # UndefEstado
     \/ payload.tipo_derecho # Undef
     \/ payload.autoridad_responsable # Undef
     \/ payload.visitador_asignado # Undef
     \/ payload.notas_seguimiento # Undef

\* utcToday is new Date().toISOString().split('T')[0] at the time of the call
normalizeUpdatePayload(data, utcToday, eng) ==
  LET fields ==
        UpdMesRegistro(data,
          UpdFechaMovimiento(data, eng,
            UpdNotas(data,
              UpdEstado(data,
                UpdVisitador(data,
                  UpdAutoridad(data,
                    UpdTipoDerecho(data,
                      UpdFechaPresentacion(data, eng, UpdFolio(data)))))))))
      payload == fields.payload
  IN
    IF fields.error # NoError THEN fields
    ELSE IF /\ payload.fecha_presentacion # NullDate
            /\ payload.fecha_ultimo_movimiento # NullDate
            /\ DateStrLess(payload.fecha_ultimo_movimiento, payload.fecha_presentacion)
      THEN Rejected("La fecha de ultimo movimiento no puede ser anterior a la fecha de presentacion.")
    ELSE IF payload = EmptyPayload THEN Rejected("No hay cambios para guardar.")
    ELSE IF shouldTouchLastMovement(payload)
      THEN Accepted([payload EXCEPT !.fecha_ultimo_movimiento = utcToday])
    ELSE Accepted(payload)

\* ------------------------------------------------------------------------
\* Backend: the expedientes table (supabase/migration.sql)
\* ------------------------------------------------------------------------
\* ids the backend generates in a run
MaxIds == MaxRows

\* a DATE column is returned as YYYY-MM-DD, the year padded to four digits
ServerDate(ds) == [ds EXCEPT !.w = 4]

\* the row a payload becomes (insert), and a row overlaid with a patch (update)
RowOfPayload(id, payload) ==
  [id |-> id, folio |-> payload.folio,
   fecha_presentacion |-> ServerDate(payload.fecha_presentacion),
   tipo_derecho |-> payload.tipo_derecho,
   autoridad_responsable |-> payload.autoridad_responsable,
   visitador_asignado |-> payload.visitador_asignado,
   estado |-> payload.estado,
   fecha_ultimo_movimiento |-> ServerDate(payload.fecha_ultimo_movimiento),
   notas_seguimiento |-> payload.notas_seguimiento,
   mes_registro |-> payload.mes_registro]

Overlay(row, payload) ==
  [id |-> row.id,
   folio |-> OrElse(payload.folio, row.folio, Undef),
   fecha_presentacion |->
     ServerDate(OrElse(payload.fecha_presentacion, row.fecha_presentacion, NullDate)),
   tipo_derecho |-> OrElse(payload.tipo_derecho, row.tipo_derecho, Undef),
   autoridad_responsable |->
     OrElse(payload.autoridad_responsable, row.autoridad_responsable, Undef),
   visitador_asignado |-> OrElse(payload.visitador_asignado, row.visitador_asignado, Undef),
   estado |-> OrElse(payload.estado, row.estado, UndefEstado),
   fecha_ultimo_movimiento |->
     ServerDate(OrElse(payload.fecha_ultimo_movimiento, row.fecha_ultimo_movimiento, NullDate)),
   notas_seguimiento |-> OrElse(payload.notas_seguimiento, row.notas_seguimiento, Undef),
   mes_registro |-> OrElse(payload.mes_registro, row.mes_registro, Undef)]

\* the CHECK constraints of the table, CURRENT_DATE being currentDate; estado
\* is one of the five states or of the two unaccented spellings
RowChecksHold(row, currentDate) ==
  /\ isValidFolio(row.folio) /\ row.folio = normalizeWhitespace(row.folio)
  /\ row.estado \in {"Admitida", "En integracion", "En integración", "En conciliacion",
                      "En conciliación", "Resuelta", "Archivada"}
  /\ DateNum(row.fecha_presentacion) <= DateNum(currentDate)
  /\ DateNum(row.fecha_ultimo_movimiento) <= DateNum(currentDate)
  /\ DateNum(row.fecha_ultimo_movimiento) >= DateNum(row.fecha_presentacion)
  /\ trim(row.folio) # <<>> /\ trim(row.tipo_derecho) # <<>>
  /\ trim(row.autoridad_responsable) # <<>> /\ trim(row.visitador_asignado) # <<>>
  /\ trim(row.mes_registro) # <<>>
  /\ Len(row.folio) <= 32 /\ Len(row.tipo_derecho) <= 120
  /\ Len(row.autoridad_responsable) <= 160 /\ Len(row.visitador_asignado) <= 120
  /\ Len(row.notas_seguimiento) <= 2500 /\ Len(row.mes_registro) <= 60

\* idx_expedientes_folio_upper_unique: no other row has the same upper(folio)
FolioIsFree(row, table) ==
  \A other \in table :
    other.id # row.id => toUpperCase(other.folio) # toUpperCase(row.folio)

\* SQLSTATE of writing row into table: unique violation, check violation, or none
WriteError(row, table, currentDate) ==
  IF ~FolioIsFree(row, table) THEN "23505"
  ELSE IF ~RowChecksHold(row, currentDate) THEN "23514"
  ELSE "ok"

\* select('*').order('created_at', { ascending: false }): ids are given in
\* creation order, so the newest row has the largest id
RECURSIVE SelectAll(_)
SelectAll(table) ==
  IF table = {} THEN <<>>
  ELSE LET newest == CHOOSE r \in table : \A o \in table : o.id <= r.id
       IN <<newest>> \o SelectAll(table \ {newest})

\* ------------------------------------------------------------------------
\* Inputs of the case repository
\* ------------------------------------------------------------------------
FolioA == <<"C","E","D","H","B","C","-","2","0","2","6","-","0","0","1">>

FolioALower == <<"c","e","d","h","b","c","-","2","0","2","6","-","0","0","1">>

FolioB == <<"C","E","D","H","B","C","-","2","0","2","6","-","0","0","2">>

FolioShort == <<"C","E","D","H","B","C","-","2","0","2","6","-","0","1">>

FolioBlank == <<" "," ">>

\* a form filled in correctly, filed today, no status and no last movement given
BaseCreate ==
  [folio |-> FolioA, fecha_presentacion |-> TodayLocal, tipo_derecho |-> <<"a">>,
   autoridad_responsable |-> <<"a">>, visitador_asignado |-> <<"a">>,
   estado |-> UndefEstado, fecha_ultimo_movimiento |-> NullDate,
   notas_seguimiento |-> Undef, mes_registro |-> Undef]

RepoCreateInputs ==
  {[BaseCreate EXCEPT !.folio = f] : f \in {FolioA, FolioALower, FolioShort}}

RepoUpdateInputs == {[EmptyPayload EXCEPT !.folio = FolioB]}

IdInputs == 0..MaxIds

\* the engine of the runs in which every date string is an ISO date
IsoEngine == [dateOnly |-> FALSE, dateTime |-> FALSE]

\* what createExpediente of another session sends
OtherPayloads ==
  {normalizeCreatePayload([BaseCreate EXCEPT !.folio = f], IsoEngine).payload :
     f \in {FolioA, FolioB}}

\* the case another session filed on 10 June and moved on 12 June
ExistingRow ==
  RowOfPayload(1,
    normalizeCreatePayload(
      [BaseCreate EXCEPT !.folio = FolioB,
                         !.fecha_presentacion = DateS(2026, 6, 10, 4),
                         !.fecha_ultimo_movimiento = DateS(2026, 6, 12, 4)],
      IsoEngine).payload)

\* the day after the local date, and a date written "0999-06-14"
Tomorrow == DateS(2026, 6, 16, 4)

Ancient == DateS(999, 6, 14, 4)

\* forms that differ in their dates, status and month label, and forms with
\* one field wrong
ValCreateInputs ==
  LET EmptyDate == [k |-> "empty", y |-> 0, m |-> 0, d |-> 0, w |-> 0]
      FolioASlash == <<" ","c","e","d","h","b","c","/","2","0","2","6"," ","/"," ","0","0","1"," ">>
  IN {[BaseCreate EXCEPT !.fecha_presentacion = fp, !.fecha_ultimo_movimiento = fum,
                         !.estado = e, !.mes_registro = mes] :
        fp \in {TodayLocal, DateS(2026, 6, 10, 4), Tomorrow, Ancient, JunkDate, EmptyDate},
        fum \in {NullDate, DateS(2026, 6, 12, 4), DateS(2026, 6, 9, 4), Tomorrow, Ancient,
                 JunkDate},
        e \in {UndefEstado, "Resuelta"},
        mes \in {Undef, <<" ">>, <<"x">>}}
     \cup {[BaseCreate EXCEPT !.folio = f] :
             f \in {FolioALower, FolioASlash, FolioB, FolioShort, FolioBlank, <<>>}}
     \cup {[BaseCreate EXCEPT !.tipo_derecho = <<" ">>],
           [BaseCreate EXCEPT !.autoridad_responsable = <<>>],
           [BaseCreate EXCEPT !.visitador_asignado = <<" ", " ">>],
           [BaseCreate EXCEPT !.estado = "Cerrada"],
           [BaseCreate EXCEPT !.folio = FolioShort, !.fecha_presentacion = Tomorrow],
           [BaseCreate EXCEPT !.folio = FolioB, !.tipo_derecho = <<" ">>]}

\* patches: none, one or all of the five text and status fields, with or
\* without a folio, a filing date and a last-movement date; patches with one
\* field wrong, and patches of one more field
ValUpdateInputs ==
  LET PatchFieldSets ==
        {{}, {"estado"}, {"autoridad"}, {"visitador"}, {"notas"}, {"tipo"},
         {"estado", "autoridad", "visitador", "notas", "tipo"}}
      PatchOf(fields, folio, fp, fum) ==
        [folio |-> folio,
         fecha_presentacion |-> fp,
         tipo_derecho |-> IF "tipo" \in fields THEN <<"b">> ELSE Undef,
         autoridad_responsable |-> IF "autoridad" \in fields THEN <<"b">> ELSE Undef,
         visitador_asignado |-> IF "visitador" \in fields THEN <<"b">> ELSE Undef,
         estado |-> IF "estado" \in fields THEN "Resuelta" ELSE UndefEstado,
         fecha_ultimo_movimiento |-> fum,
         notas_seguimiento |-> IF "notas" \in fields THEN <<"n">> ELSE Undef,
         mes_registro |-> Undef]
  IN {PatchOf(fields, folio, fp, fum) :
        fields \in PatchFieldSets,
        folio \in {Undef, FolioA},
        fp \in {NullDate, DateS(2026, 6, 9, 4)},
        fum \in {NullDate, DateS(2026, 6, 13, 4), Ancient}}
     \cup {[EmptyPayload EXCEPT !.folio = f] : f \in {FolioShort, FolioBlank}}
     \cup {[EmptyPayload EXCEPT !.fecha_presentacion = d] :
             d \in {Tomorrow, JunkDate, DateS(2026, 6, 14, 4), Ancient}}
     \cup {[EmptyPayload EXCEPT !.fecha_ultimo_movimiento = d] :
             d \in {Tomorrow, JunkDate, DateS(2026, 6, 9, 4)}}
     \cup {[EmptyPayload EXCEPT !.tipo_derecho = <<" ">>],
           [EmptyPayload EXCEPT !.autoridad_responsable = <<>>],
           [EmptyPayload EXCEPT !.visitador_asignado = <<" ">>],
           [EmptyPayload EXCEPT !.estado = "Cerrada"],
           [EmptyPayload EXCEPT !.mes_registro = <<" ">>],
           [EmptyPayload EXCEPT !.mes_registro = <<"x">>]}

\* ------------------------------------------------------------------------
\* Settings page: the records of a backup file (src/unnamed/part_005)
\* ------------------------------------------------------------------------
\* records a batch of the model holds
MaxBatch == 3

MAX_BACKUP_RECORDS == 5000

\* sanitizeDate: a string of at least ten characters that new Date() parses,
\* as the date part of its toISOString(), and never after the UTC date of
\* the call; the UTC date of the call for anything else
sanitizeDate(value, utcToday) ==
  IF value.k # "date" \/ value.w < 4 THEN utcToday
  ELSE LET normalized == DateS(value.y, value.m, value.d, 4) IN
         IF DateStrLess(utcToday, normalized) THEN utcToday ELSE normalized

\* sanitizeEstado: a member of ESTADOS, or the state whose stem the value
\* includes, or 'Admitida'
sanitizeEstado(value) ==
  IF IsEstado(value) THEN value
  ELSE IF value = "En integracion" THEN "En integración"
  ELSE IF value = "En conciliacion" THEN "En conciliación"
  ELSE "Admitida"

\* parseBackupRecords: the elements of the array that are objects and whose
\* folio and texts pass, as ExpedienteInsert records (map, then filter)
parseBackupRecords(source, fallbackVisitador, utcToday, eng) ==
  LET folioOf(item) == slice0(normalizeFolio(OrElse(item.folio, <<>>, Undef)), LimitFolio)
      text(value, fallback, limit) ==
        slice0(normalizeWhitespace(OrElse(value, fallback, Undef)), limit)
      tipoOf(item) == text(item.tipo_derecho, <<"O","t","r","o">>, LimitTipoDerecho)
      autoridadOf(item) ==
        text(item.autoridad_responsable,
             <<"N","o"," ","e","s","p","e","c","i","f","i","c","a","d","a">>, LimitAutoridad)
      visitadorOf(item) == text(item.visitador_asignado, fallbackVisitador, LimitVisitador)
      fechaOf(item) == sanitizeDate(item.fecha_presentacion, utcToday)
      kept(item) ==
        /\ item.object
        /\ folioOf(item) # <<>> /\ isValidFolio(folioOf(item))
        /\ tipoOf(item) # <<>> /\ autoridadOf(item) # <<>> /\ visitadorOf(item) # <<>>
      record(item) ==
        [folio |-> folioOf(item),
         fecha_presentacion |-> fechaOf(item),
         tipo_derecho |-> tipoOf(item),
         autoridad_responsable |-> autoridadOf(item),
         visitador_asignado |-> visitadorOf(item),
         estado |-> sanitizeEstado(item.estado),
         fecha_ultimo_movimiento |->
           sanitizeDate(OrElse(item.fecha_ultimo_movimiento, fechaOf(item), NullDate), utcToday),
         notas_seguimiento |->
           slice0(trim(OrElse(item.notas_seguimiento, <<>>, Undef)), LimitNotas),
         mes_registro |-> OrElse(item.mes_registro, getMesRegistro(fechaOf(item), eng), Undef)]
      items == SelectSeq(source, kept)
  IN [i \in 1..Len(items) |-> record(items[i])]

\* the elements of the JSON array: an object with the fields of a case, or a
\* value that is no object (object = FALSE)
ImportItems ==
  {[EmptyPayload EXCEPT !.folio = f, !.tipo_derecho = <<"a">>] @@ [object |-> TRUE] :
     f \in {FolioA, FolioALower, FolioB, FolioShort}}
  \cup {EmptyPayload @@ [object |-> FALSE]}

ImportBatches == UNION {[1..n -> ImportItems] : n \in 0..MaxBatch}

\* visitadoresCatalog[0] ?? 'Visitador General I'
FallbackVisitador == <<"V">>

\* what the import can hand to createExpediente
ImportRecords ==
  UNION {{parseBackupRecords(<<item>>, FallbackVisitador, utcToday, IsoEngine)[i] :
            i \in 1..Len(parseBackupRecords(<<item>>, FallbackVisitador, utcToday, IsoEngine))} :
         item \in ImportItems, utcToday \in UtcTodayChoices}

\* ------------------------------------------------------------------------
\* Inputs of the form of a new case
\* ------------------------------------------------------------------------
\* EMPTY, with dateToday() and dateTomorrow()
EMPTY ==
  [folio |-> <<>>, fecha_presentacion |-> TodayLocal, tipo_derecho |-> <<>>,
   autoridad_responsable |-> <<>>, visitador_asignado |-> <<>>,
   estado |-> "Admitida", notas_seguimiento |-> <<>>, next_action_text |-> <<>>,
   next_action_due_date |-> Tomorrow]

\* the payload handleSubmit builds
formPayload(form, utcToday, eng) ==
  LET normalizedDate ==
        IF normalizeDateOnly(form.fecha_presentacion, eng) = NullDate THEN utcToday
        ELSE normalizeDateOnly(form.fecha_presentacion, eng)
  IN [folio |-> slice0(normalizeFolio(form.folio), LimitFolio),
      fecha_presentacion |-> normalizedDate,
      tipo_derecho |-> slice0(normalizeWhitespace(form.tipo_derecho), LimitTipoDerecho),
      autoridad_responsable |->
        slice0(normalizeWhitespace(form.autoridad_responsable), LimitAutoridad),
      visitador_asignado |->
        slice0(normalizeWhitespace(form.visitador_asignado), LimitVisitador),
      estado |-> form.estado,
      fecha_ultimo_movimiento |-> utcToday,
      notas_seguimiento |-> slice0(trim(form.notas_seguimiento), LimitNotas),
      mes_registro |-> getMesRegistro(normalizedDate, eng)]

\* the forms of the runs: the page was opened with no case in the snapshot and
\* the user typed the right, the authority and the visitador
TypedForm ==
  [EMPTY EXCEPT !.folio = FolioA, !.tipo_derecho = <<"a">>,
                !.autoridad_responsable = <<"a">>, !.visitador_asignado = <<"a">>]

FormPayloads ==
  {formPayload([TypedForm EXCEPT !.next_action_text = <<"a">>], TodayLocal, IsoEngine)}

\* The validators are pure: their results on the inputs of the specifications
\* are computed once (@@ makes the table).
ValidatedCreate ==
  [data \in RepoCreateInputs \cup ValCreateInputs \cup ImportRecords \cup FormPayloads,
   eng \in Engines |->
     normalizeCreatePayload(data, eng)] @@ <<>>

ValidatedUpdate ==
  [data \in RepoUpdateInputs \cup ValUpdateInputs, utcToday \in UtcTodayChoices,
   eng \in Engines |-> normalizeUpdatePayload(data, utcToday, eng)] @@ <<>>

\* ------------------------------------------------------------------------
\* ExpedientesProvider: state
\* ------------------------------------------------------------------------
VARIABLES
  session,      \* useAuth().session is not null
  expedientes,  \* the snapshot: useState<Expediente[]>
  loading,      \* useState(true)
  error,        \* useState<string | null>
  server,       \* the rows of public.expedientes
  nextId,       \* the next id gen_random_uuid() gives
  fetches,      \* fetchExpedientes calls in flight
  mut,          \* the create/update/delete call in flight
  timer,        \* refreshTimeout is pending
  result,       \* what the last create/update/delete call returned
  lastRead,     \* what the latest successful select returned
  call          \* the arguments of the call a run of SpecVal follows

repoVars ==
  <<session, expedientes, loading, error, server, nextId, fetches, mut, timer,
    result, lastRead>>

NoResult == [kind |-> "none", msg |-> NoError]

Idle == [pc |-> "idle", op |-> "none", id |-> 0, payload |-> EmptyPayload]

NoCall == [op |-> "none", id |-> 0, data |-> EmptyPayload, utcToday |-> NullDate,
           eng |-> [dateOnly |-> FALSE, dateTime |-> FALSE]]

\* an isUuid that accepts every string
isUuidAlways(id) == TRUE

\* ids: n >= 1 is the n-th UUID the backend generated, 0 is a string that is
\* not a UUID
isUuid(id) == id >= 1

\* the provider is mounted with no session and its effect has run
RepoInit ==
  /\ session = FALSE
  /\ expedientes = <<>>
  /\ loading = FALSE
  /\ error = NoError
  /\ server = {}
  /\ nextId = 1
  /\ fetches = {}
  /\ mut = Idle
  /\ timer = FALSE
  /\ result = NoResult
  /\ lastRead = <<>>
  /\ call = NoCall

\* ------------------------------------------------------------------------
\* fetchExpedientes
\* ------------------------------------------------------------------------
\* The call up to its await, for a closure that holds a session: owner is
\* "mut" for the refetch a mutation awaits, "bg" for the effect's and the
\* debounce timer's.
fetchExpedientes(owner) ==
  /\ owner = "bg" => Cardinality({f \in fetches : f.owner = "bg"}) < MaxFetches
  /\ loading' = TRUE
  /\ error' = NoError
  /\ fetches' = fetches \cup {[owner |-> owner, st |-> "sent", data |-> <<>>]}

\* the backend answers the select with the rows
ServerSelect(f) ==
  /\ f \in fetches /\ f.st = "sent"
  /\ fetches' = (fetches \ {f}) \cup {[f EXCEPT !.st = "data", !.data = SelectAll(server)]}
  /\ lastRead' = SelectAll(server)
  /\ UNCHANGED <<session, expedientes, loading, error, server, nextId, mut, timer,
                 result>>

\* a mutation that awaited the fetch returns: fetchExpedientes never throws,
\* so the mutation reports success whatever the refetch did
AwaitEnds(f) ==
  IF f.owner = "mut"
  THEN /\ mut' = Idle
       /\ result' = [kind |-> "ok", msg |-> NoError]
  ELSE UNCHANGED <<mut, result>>

\* the await of the select ends with the rows
FetchResponse(f) ==
  /\ f \in fetches /\ f.st = "data"
  /\ fetches' = fetches \ {f}
  /\ expedientes' = f.data
  /\ loading' = FALSE
  /\ AwaitEnds(f)
  /\ UNCHANGED <<session, error, server, nextId, timer, lastRead>>

\* the await of the select ends with an error of the backend (fetchError), or
\* throws (the catch branch)
FetchFails(f) ==
  /\ f \in fetches /\ f.st = "sent"
  /\ fetches' = fetches \ {f}
  /\ error' \in {"No se pudieron cargar los expedientes.",
                 "Error de conexion al consultar expedientes."}
  /\ loading' = FALSE
  /\ AwaitEnds(f)
  /\ UNCHANGED <<session, expedientes, server, nextId, timer, lastRead>>

\* ------------------------------------------------------------------------
\* createExpediente, updateExpediente, deleteExpediente: the synchronous part
\* ------------------------------------------------------------------------
Returns(kind, msg) == result' = [kind |-> kind, msg |-> msg]

\* the request leaves for the backend
Sends(op, id, payload) ==
  /\ mut' = [pc |-> "sent", op |-> op, id |-> id, payload |-> payload]
  /\ result' = [kind |-> "pending", msg |-> NoError]

\* a lookup that finds no duplicate
duplicateFolioNever(folio, exceptId) == FALSE

\* expedientes.some((item) => item.folio.toUpperCase() === payload.folio.toUpperCase())
duplicateFolio(folio, exceptId) ==
  \E k \in 1..Len(expedientes) :
    /\ expedientes[k].id # exceptId
    /\ toUpperCase(expedientes[k].folio) = toUpperCase(folio)

createExpediente(data, eng) ==
  /\ session /\ mut.pc = "idle"
  /\ LET v == ValidatedCreate[data, eng] IN
       IF v.error # NoError
         THEN Returns("validation", v.error) /\ UNCHANGED mut
       ELSE IF duplicateFolio(v.payload.folio, 0)
         THEN Returns("conflict", "El folio ya existe.") /\ UNCHANGED mut
       ELSE Sends("insert", 0, v.payload)
  /\ UNCHANGED <<session, expedientes, loading, error, server, nextId, fetches,
                 timer, lastRead>>

\* expedientes.find((item) => item.id === id)
InSnapshot(id) == \E k \in 1..Len(expedientes) : expedientes[k].id = id

current(id) == expedientes[CHOOSE k \in 1..Len(expedientes) : expedientes[k].id = id]

\* the checks of updateExpediente after the id was found, up to the request
updateChecks(id, data, utcToday, eng) ==
  LET v == ValidatedUpdate[data, utcToday, eng]
      payload == v.payload
      nextFechaPresentacion ==
        OrElse(payload.fecha_presentacion, current(id).fecha_presentacion, NullDate)
      nextFechaMovimiento ==
        OrElse(payload.fecha_ultimo_movimiento, current(id).fecha_ultimo_movimiento, NullDate)
  IN
    IF v.error # NoError
      THEN Returns("validation", v.error) /\ UNCHANGED mut
    ELSE IF payload.folio # Undef /\ duplicateFolio(payload.folio, id)
      THEN Returns("conflict", "El folio ya existe.") /\ UNCHANGED mut
    ELSE IF DateStrLess(nextFechaMovimiento, nextFechaPresentacion)
      THEN /\ Returns("validation",
                "La fecha de ultimo movimiento no puede ser anterior a la fecha de presentacion.")
           /\ UNCHANGED mut
    ELSE IF isFutureDate(nextFechaMovimiento, eng)
      THEN /\ Returns("validation", "La fecha de ultimo movimiento no puede ser futura.")
           /\ UNCHANGED mut
    ELSE Sends("update", id, payload)

updateExpediente(id, data, utcToday, eng) ==
  /\ session /\ mut.pc = "idle"
  /\ IF ~isUuid(id)
       THEN Returns("invalidid", "Identificador de expediente invalido.") /\ UNCHANGED mut
     ELSE IF ~InSnapshot(id)
       THEN Returns("notfound", "No se encontro el expediente a actualizar.") /\ UNCHANGED mut
     ELSE updateChecks(id, data, utcToday, eng)
  /\ UNCHANGED <<session, expedientes, loading, error, server, nextId, fetches,
                 timer, lastRead>>

deleteExpediente(id) ==
  /\ session /\ mut.pc = "idle"
  /\ IF ~isUuid(id)
       THEN Returns("invalidid", "Identificador de expediente invalido.") /\ UNCHANGED mut
       ELSE Sends("delete", id, EmptyPayload)
  /\ UNCHANGED <<session, expedientes, loading, error, server, nextId, fetches,
                 timer, lastRead>>

\* ------------------------------------------------------------------------
\* The backend handles a write; the change feed
\* ------------------------------------------------------------------------
\* The postgres_changes handler of a subscribed client: clear the timeout and
\* set it again. The event of a change may also be lost; its delay is part
\* of the timer's.
Emits == timer' \in (IF session THEN {timer, TRUE} ELSE {timer})

HasRow(id) == \E r \in server : r.id = id

RowOf(id) == CHOOSE r \in server : r.id = id

\* an error branch that returns the code of every error as it came
ReplyErrorRawCode(code) ==
  /\ mut' = Idle
  /\ Returns("backend", code)
  /\ UNCHANGED <<server, nextId, timer>>

\* the await of the request ends with an error of the backend
ReplyError(code) ==
  /\ mut' = Idle
  /\ Returns("backend",
       IF code = "23505" /\ mut.op # "delete"
         THEN "El folio ya existe en base de datos." ELSE code)
  /\ UNCHANGED <<server, nextId, timer>>

\* the backend carried the request out; its answer is on the way
ReplyOk == mut' = [mut EXCEPT !.pc = "replied"] /\ UNCHANGED result

\* insert([payload]).select('*').single()
ServerInsert(payload, currentDate) ==
  LET row == RowOfPayload(nextId, payload)
      err == WriteError(row, server, currentDate)
  IN IF err = "ok"
       THEN /\ nextId <= MaxIds /\ Cardinality(server) < MaxRows
            /\ server' = server \cup {row}
            /\ nextId' = nextId + 1
            /\ Emits
            /\ ReplyOk
       ELSE ReplyError(err)

\* update(payload).eq('id', id).select('*').single(): no row is PGRST116
ServerUpdate(id, payload, currentDate) ==
  IF ~HasRow(id)
    THEN ReplyError("PGRST116")
    ELSE LET row == Overlay(RowOf(id), payload)
             err == WriteError(row, server, currentDate)
         IN IF err = "ok"
              THEN /\ server' = (server \ {RowOf(id)}) \cup {row}
                   /\ Emits
                   /\ ReplyOk
                   /\ UNCHANGED nextId
              ELSE ReplyError(err)

\* delete().eq('id', id): no row is no error
ServerDelete(id) ==
  /\ server' = {r \in server : r.id # id}
  /\ IF HasRow(id) THEN Emits ELSE UNCHANGED timer
  /\ ReplyOk
  /\ UNCHANGED nextId

\* The backend handles the request. An error reaches the caller in the same
\* step: the caller only returns it. The backend may also refuse for a
\* reason of its own (a policy, an outage).
ServerMutation(currentDate) ==
  /\ mut.pc = "sent"
  /\ \/ mut.op = "insert" /\ ServerInsert(mut.payload, currentDate)
     \/ mut.op = "update" /\ ServerUpdate(mut.id, mut.payload, currentDate)
     \/ mut.op = "delete" /\ ServerDelete(mut.id)
     \/ ReplyError("error")
  /\ UNCHANGED <<session, expedientes, loading, error, fetches, lastRead>>

\* the await of the request ends without an error: await fetchExpedientes()
\* (the pages that make the call are mounted only with a session)
MutationReply ==
  /\ mut.pc = "replied"
  /\ fetchExpedientes("mut")
  /\ mut' = [mut EXCEPT !.pc = "refetch"]
  /\ UNCHANGED <<session, expedientes, server, nextId, timer, result, lastRead>>

\* the request throws (the catch branches): before or after the backend acted
MutationNetworkError ==
  /\ mut.pc \in {"sent", "replied"}
  /\ mut' = Idle
  /\ Returns("network", "error de red")
  /\ UNCHANGED <<session, expedientes, loading, error, server, nextId, fetches,
                 timer, lastRead>>

\* the timeout's callback
TimerFires ==
  /\ timer
  /\ timer' = FALSE
  /\ fetchExpedientes("bg")
  /\ UNCHANGED <<session, expedientes, server, nextId, mut, result, lastRead>>

\* ------------------------------------------------------------------------
\* The effect of ExpedientesProvider on a change of session
\* ------------------------------------------------------------------------
SignIn ==
  /\ ~session
  /\ session' = TRUE
  /\ fetchExpedientes("bg")
  /\ UNCHANGED <<expedientes, server, nextId, mut, timer, result, lastRead>>

\* cleanup (clearTimeout, removeChannel), then the effect with no session:
\* fetchExpedientes of a closure whose session is null empties the list;
\* the page that made the last call is unmounted with its result
SignOut ==
  /\ session
  /\ session' = FALSE
  /\ timer' = FALSE
  /\ expedientes' = <<>>
  /\ error' = NoError
  /\ loading' = FALSE
  /\ result' = NoResult
  /\ UNCHANGED <<server, nextId, fetches, mut, lastRead>>

\* ------------------------------------------------------------------------
\* Other sessions of the application write to the table
\* ------------------------------------------------------------------------
OtherInsert(payload, currentDate) ==
  LET row == RowOfPayload(nextId, payload) IN
    /\ nextId <= MaxIds /\ Cardinality(server) < MaxRows
    /\ WriteError(row, server, currentDate) = "ok"
    /\ server' = server \cup {row}
    /\ nextId' = nextId + 1
    /\ Emits
    /\ UNCHANGED <<session, expedientes, loading, error, fetches, mut, result,
                   lastRead>>

OtherDelete(id) ==
  /\ HasRow(id)
  /\ server' = {r \in server : r.id # id}
  /\ Emits
  /\ UNCHANGED <<session, expedientes, loading, error, nextId, fetches, mut,
                 result, lastRead>>


\* ------------------------------------------------------------------------
\* NotificationsProvider: the notification centre kept in user_notifications
\* ------------------------------------------------------------------------
\* the retention bound: 80 in the source, a small list here
MAX_NOTIFICATIONS == 2

\* the clock runs from 0 to MaxTime milliseconds
MaxTime == 1

\* how many times crypto.randomUUID() is called
MaxLocalIds == 3

\* how many rows gen_random_uuid() names in user_notifications
MaxRowIds == 2

VARIABLES
  notifications,      \* useState<Notification[]>([])
  notifLoading,       \* useState(true)
  userNotifications,  \* the user's rows of public.user_notifications
  notifFetch,         \* the select of fetchNotifications in flight
  now,                \* the clock of the client, in milliseconds
  nextLocalId,        \* the next value of crypto.randomUUID()
  nextRowId,          \* the next id gen_random_uuid() gives to a row
  last                \* the last call of the client, what it did to the list
                      \* and whether it cut entries off

notifVars ==
  <<notifications, notifLoading, userNotifications, notifFetch, now,
    nextLocalId, nextRowId, last>>

\* client_id of a row that addNotification made
NoClient == "null"

LocalId(n) == "c" \o ToString(n)

\* a key AppLayout gives to a system notification
NotifKeys == {"system-stale-cases"}

\* read is "undefined" when the caller leaves it out
SystemInputs ==
  {[type |-> "warning", title |-> "Casos sin movimiento", message |-> m,
    read |-> "undefined"] : m \in {"1", "2"}}
  \cup {[type |-> "warning", title |-> "Casos sin movimiento", message |-> "1",
          read |-> "true"]}

AddInputs == {[type |-> "error", title |-> "No se pudo eliminar", message |-> "e",
               read |-> "undefined"]}

NoInput == [type |-> "none", title |-> "", message |-> "", read |-> "undefined"]

NoLast == [op |-> "none", id |-> NoClient, n |-> NoInput, did |-> "none", cut |-> FALSE]

\* n.read ?? fallback
ReadOr(n, fallback) == IF n.read = "undefined" THEN fallback ELSE n.read = "true"

toNotification(row) ==
  [id |-> row.id, clientId |-> row.client_id, type |-> row.type, title |-> row.title,
   message |-> row.message, read |-> row.read, timestamp |-> row.timestamp]

\* a sort that leaves the list as it is
sortSkipped(list) == list

\* .sort((a, b) => b.timestamp.getTime() - a.timestamp.getTime()): newest
\* first, entries of equal timestamp in the order they had (the sort is stable)
sortByTimestamp(list) ==
  LET n == Len(list)
      Before(i, j) == \/ list[i].timestamp > list[j].timestamp
                      \/ list[i].timestamp = list[j].timestamp /\ i < j
      Rank(i) == 1 + Cardinality({j \in 1..n : Before(j, i)})
  IN [k \in 1..n |-> list[CHOOSE i \in 1..n : Rank(i) = k]]

\* .order('timestamp', { ascending: false }).limit(MAX_NOTIFICATIONS): the
\* backend picks the order of rows of equal timestamp
SelectNotifications(table) ==
  LET k == Min2(Cardinality(table), MAX_NOTIFICATIONS) IN
    {s \in [1..k -> table] :
       /\ \A i, j \in 1..k : i < j => s[i].id # s[j].id /\ s[i].timestamp >= s[j].timestamp
       /\ \A r \in table : (\A i \in 1..k : s[i].id # r.id) =>
                             \A i \in 1..k : r.timestamp <= s[i].timestamp}

\* useState initial values, then the effect's fetchNotifications with no session
NotifInit ==
  /\ notifications = <<>>
  /\ notifLoading = FALSE
  /\ userNotifications = {}
  /\ notifFetch = "none"
  /\ now = 0
  /\ nextLocalId = 1
  /\ nextRowId = 1
  /\ last = NoLast

\* ------------------------------------------------------------------------
\* The backend handles a write to user_notifications
\* ------------------------------------------------------------------------
\* the table after the backend handled the write r; a new row gets its id
\* from gen_random_uuid()
NotifTableAfter(table, r) ==
  LET same == {row \in table : row.client_id = r.id /\ r.id # NoClient}
      RowId(n) == "r" \o ToString(n)
      RowOfWrite(id, w) ==
        [id |-> id, client_id |-> w.id, type |-> w.type, title |-> w.title,
         message |-> w.message, read |-> w.read, timestamp |-> w.timestamp]
  IN
    CASE r.op = "insert" -> table \cup {RowOfWrite(RowId(nextRowId), r)}
      [] r.op = "upsert" ->
           IF same = {} THEN table \cup {RowOfWrite(RowId(nextRowId), r)}
           ELSE (table \ same) \cup {RowOfWrite(row.id, r) : row \in same}
      \* .or(`id.eq.${id},client_id.eq.${id}`): the column id is of type uuid,
      \* and its comparison with a key that is no UUID is an error
      [] r.op = "delete" ->
           IF r.id \in NotifKeys THEN table
           ELSE {row \in table : row.id # r.id /\ row.client_id # r.id}
      [] r.op = "markRead" ->
           {IF row.id = r.id THEN [row EXCEPT !.read = TRUE] ELSE row : row \in table}
      [] r.op = "markAllRead" -> {[row EXCEPT !.read = TRUE] : row \in table}
      [] OTHER -> {}

ServerWrites(r) ==
  LET TakesRowId ==
        \/ r.op = "insert"
        \/ r.op = "upsert" /\ \A row \in userNotifications : row.client_id # r.id
  IN /\ TakesRowId => nextRowId <= MaxRowIds
     /\ userNotifications' = NotifTableAfter(userNotifications, r)
     /\ nextRowId' = IF TakesRowId THEN nextRowId + 1 ELSE nextRowId

\* void supabase.from('user_notifications')...: the backend handles the write
\* before the client's next step, or it never gets it (nothing awaits the
\* write and its failure is not looked at)
SendsWrite(op, id, n, read) ==
  LET r == [op |-> op, id |-> id, type |-> n.type, title |-> n.title,
            message |-> n.message, read |-> read, timestamp |-> now]
  IN \/ ServerWrites(r)
     \/ UNCHANGED <<userNotifications, nextRowId>>

\* ------------------------------------------------------------------------
\* fetchNotifications and the effect on [session]
\* ------------------------------------------------------------------------
NotifSignIn ==
  /\ ~session /\ notifFetch = "none"
  /\ session' = TRUE
  /\ notifLoading' = TRUE
  /\ notifFetch' = "sent"
  /\ UNCHANGED <<notifications, userNotifications, now, nextLocalId,
                 nextRowId, last>>

NotifSignOut ==
  /\ session
  /\ session' = FALSE
  /\ notifications' = <<>>
  /\ notifLoading' = FALSE
  /\ last' = NoLast
  /\ UNCHANGED <<userNotifications, notifFetch, now, nextLocalId,
                 nextRowId>>

\* the backend answers the select, with the rows or with an error, and
\* fetchNotifications goes on after its await
NotifFetchResponse ==
  /\ notifFetch = "sent"
  /\ \/ /\ \E data \in SelectNotifications(userNotifications) :
            notifications' = [i \in 1..Len(data) |-> toNotification(data[i])]
        /\ last' = NoLast
     \/ UNCHANGED <<notifications, last>>
  /\ notifLoading' = FALSE
  /\ notifFetch' = "none"
  /\ UNCHANGED <<session, userNotifications, now, nextLocalId, nextRowId>>

\* ------------------------------------------------------------------------
\* The calls of the client
\* ------------------------------------------------------------------------
\* setNotifications of a list that got one more entry: sort, slice
Keeps(list, op, id, n, did) ==
  LET sorted == sortByTimestamp(list) IN
    /\ notifications' = slice0(sorted, MAX_NOTIFICATIONS)
    /\ last' = [op |-> op, id |-> id, n |-> n, did |-> did,
                cut |-> Len(sorted) > MAX_NOTIFICATIONS]

addNotification(n) ==
  /\ session /\ nextLocalId <= MaxLocalIds
  /\ LET optimistic == [id |-> LocalId(nextLocalId), clientId |-> NoClient,
                        type |-> n.type, title |-> n.title, message |-> n.message,
                        read |-> FALSE, timestamp |-> now]
     IN Keeps(<<optimistic>> \o notifications, "add", NoClient, NoInput, "created")
  /\ nextLocalId' = nextLocalId + 1
  /\ SendsWrite("insert", NoClient, n, FALSE)
  /\ UNCHANGED <<session, notifLoading, notifFetch, now>>

\* prev.find((item) => item.clientId === id): the index of the first match, 0
\* when there is none
FindByClientId(prev, id) ==
  LET matches == {i \in 1..Len(prev) : prev[i].clientId = id} IN
    IF matches = {} THEN 0 ELSE CHOOSE i \in matches : \A j \in matches : i <= j

\* a comparison that finds every call changed
contentChangedAlways(found, n) == TRUE

contentChanged(found, n) ==
  \/ found.title # n.title
  \/ found.message # n.message
  \/ found.type # n.type
  \/ found.read # ReadOr(n, found.read)

upsertSystemNotification(id, n) ==
  LET at == FindByClientId(notifications, id) IN
    /\ session
    /\ IF at = 0
       THEN /\ nextLocalId <= MaxLocalIds
            /\ LET created == [id |-> LocalId(nextLocalId), clientId |-> id,
                               type |-> n.type, title |-> n.title,
                               message |-> n.message, read |-> ReadOr(n, FALSE),
                               timestamp |-> now]
               IN Keeps(<<created>> \o notifications, "upsert", id, n, "created")
            /\ nextLocalId' = nextLocalId + 1
       ELSE /\ IF ~contentChanged(notifications[at], n)
               THEN /\ notifications' = notifications
                    /\ last' = [op |-> "upsert", id |-> id, n |-> n, did |-> "unchanged",
                                 cut |-> FALSE]
               ELSE Keeps([i \in 1..Len(notifications) |->
                             IF notifications[i].clientId = id
                             THEN [notifications[i] EXCEPT
                                     !.type = n.type, !.title = n.title,
                                     !.message = n.message, !.read = ReadOr(n, FALSE),
                                     !.timestamp = now]
                             ELSE notifications[i]],
                          "upsert", id, n, "updated")
            /\ UNCHANGED nextLocalId
    /\ SendsWrite("upsert", id, n, ReadOr(n, FALSE))
    /\ UNCHANGED <<session, notifLoading, notifFetch, now>>

\* prev.filter((n) => n.id !== id && n.clientId !== id)
RECURSIVE Filtered(_, _)
Filtered(prev, id) ==
  IF prev = <<>> THEN <<>>
  ELSE IF Head(prev).id # id /\ Head(prev).clientId # id
       THEN <<Head(prev)>> \o Filtered(Tail(prev), id)
       ELSE Filtered(Tail(prev), id)

removeNotification(id) ==
  /\ session
  /\ notifications' = Filtered(notifications, id)
  /\ last' = [NoLast EXCEPT !.op = "other"]
  /\ SendsWrite("delete", id, NoInput, FALSE)
  /\ UNCHANGED <<session, notifLoading, notifFetch, now, nextLocalId>>

markRead(id) ==
  /\ session
  /\ notifications' = [i \in 1..Len(notifications) |->
                         IF notifications[i].id = id
                         THEN [notifications[i] EXCEPT !.read = TRUE]
                         ELSE notifications[i]]
  /\ last' = [NoLast EXCEPT !.op = "other"]
  /\ SendsWrite("markRead", id, NoInput, TRUE)
  /\ UNCHANGED <<session, notifLoading, notifFetch, now, nextLocalId>>

markAllRead ==
  /\ session
  /\ notifications' = [i \in 1..Len(notifications) |->
                         [notifications[i] EXCEPT !.read = TRUE]]
  /\ last' = [NoLast EXCEPT !.op = "other"]
  /\ SendsWrite("markAllRead", NoClient, NoInput, TRUE)
  /\ UNCHANGED <<session, notifLoading, notifFetch, now, nextLocalId>>

clearAll ==
  /\ session
  /\ notifications' = <<>>
  /\ last' = [NoLast EXCEPT !.op = "other"]
  /\ SendsWrite("clearAll", NoClient, NoInput, FALSE)
  /\ UNCHANGED <<session, notifLoading, notifFetch, now, nextLocalId>>

\* new Date() gives a later millisecond
ClockTick ==
  /\ now < MaxTime
  /\ now' = now + 1
  /\ UNCHANGED <<session, notifications, notifLoading, userNotifications,
                 notifFetch, nextLocalId, nextRowId, last>>

\* a write of another device of the user, whose clock is ahead
OtherWrites ==
  {[op |-> "insert", id |-> NoClient, type |-> "error", title |-> "No se pudo eliminar",
    message |-> "e", read |-> FALSE, timestamp |-> MaxTime]}

OtherDeviceWrites(r) ==
  /\ ServerWrites(r)
  /\ UNCHANGED <<session, notifications, notifLoading, notifFetch, now,
                 nextLocalId, last>>

\* ------------------------------------------------------------------------
\* ProductivityProvider: the settings and the row of user_preferences
\* ------------------------------------------------------------------------
\* how many ids crypto.randomUUID() gives out
MaxUuids == 3

\* .slice(0, 24) of the templates, scaled
MaxTemplates == 3

\* .slice(0, 20) of the saved filters, scaled
MaxSavedFilters == 2

VARIABLES
  settings,         \* useState<ProductivitySettings>(DEFAULT_SETTINGS): profile,
                    \* templates, savedFilters, drafts
  userPreferences,  \* the row of public.user_preferences of the user
  nextUuid,         \* the next id crypto.randomUUID() gives
  lastSave          \* what the last saveTemplate or saveFilter did to its list

\* payload.id of a call made with no id
NoId == 0 - 1

DEFAULT_PROFILE ==
  [fullName |-> <<"A", "d", "m", "i", "n", "i", "s", "t", "r", "a", "d", "o", "r",
                  " ", "C", "E", "D", "H", "B", "C">>,
   position |-> <<"A", "d", "m", "i", "n", "i", "s", "t", "r", "a", "d", "o", "r">>]

DEFAULT_SETTINGS ==
  [profile |-> DEFAULT_PROFILE, templates |-> <<>>, savedFilters |-> <<>>,
   drafts |-> {}]

\* the row an insert that names no column makes: the defaults of the columns
DefaultRow ==
  [exists |-> TRUE, profile |-> DEFAULT_PROFILE, templates |-> <<>>,
   saved_filters |-> <<>>, drafts |-> {}]

PrefsInit ==
  /\ settings = DEFAULT_SETTINGS
  /\ userPreferences = [DefaultRow EXCEPT !.exists = FALSE]
  /\ nextUuid = 1
  /\ lastSave = "none"

\* the template saveTemplate and parseTemplates build from the fields given
cleanTemplate(row, id) ==
  [id |-> id,
   name |-> slice0(normalizeWhitespace(row.name), 80),
   tipo_derecho |-> slice0(normalizeWhitespace(row.tipo_derecho), 120),
   autoridad_responsable |->
     slice0(normalizeWhitespace(row.autoridad_responsable), 160),
   visitador_asignado |-> slice0(normalizeWhitespace(row.visitador_asignado), 120),
   estado |-> IF IsEstado(row.estado) THEN row.estado ELSE "Admitida"]

\* !template.name || !template.tipo_derecho || ...
templateRejected(template) ==
  \/ template.name = <<>>
  \/ template.tipo_derecho = <<>>
  \/ template.autoridad_responsable = <<>>
  \/ template.visitador_asignado = <<>>

\* the filter saveFilter builds from its payload
cleanFilter(payload, id) ==
  [id |-> id,
   name |-> slice0(normalizeWhitespace(payload.name), 80),
   search |-> slice0(trim(payload.search), 120)]

\* parsePreferencesRow of a row that exists: parseTemplates and
\* parseSavedFilters build every entry again and drop the ones with an empty
\* required field; they keep all the others, however many (row.id is truthy
\* in every row the application wrote, so no id is drawn)
parsePreferencesRow(row) ==
  LET OrDefault(text, default) ==
        LET clean == slice0(normalizeWhitespace(text), 120)
        IN IF clean = <<>> THEN default ELSE clean
      templates ==
        [i \in 1..Len(row.templates) |->
           cleanTemplate(row.templates[i], row.templates[i].id)]
      filters ==
        [i \in 1..Len(row.saved_filters) |->
           [id |-> row.saved_filters[i].id,
            name |-> slice0(normalizeWhitespace(row.saved_filters[i].name), 80),
            search |-> slice0(row.saved_filters[i].search, 120)]]
  IN [profile |->
        [fullName |-> OrDefault(row.profile.fullName, DEFAULT_PROFILE.fullName),
         position |-> OrDefault(row.profile.position, DEFAULT_PROFILE.position)],
      templates |-> SelectSeq(templates, LAMBDA t : ~templateRejected(t)),
      savedFilters |-> SelectSeq(filters, LAMBDA f : f.name # <<>>),
      drafts |-> row.drafts]

\* persistPreferences: nothing with no session; else the upsert on user_id of
\* the columns of the patch, which the backend carries out or not (the
\* result of the await is not looked at)
persistPreferences(column, value) ==
  IF ~session THEN UNCHANGED userPreferences
  ELSE \/ userPreferences' =
            [(IF userPreferences.exists THEN userPreferences ELSE DefaultRow)
               EXCEPT ![column] = value]
       \/ UNCHANGED userPreferences

\* index === -1 ? [item, ...prev].slice(0, limit)
\*              : prev.map((it, idx) => (idx === index ? item : it))
savedListRolledBack(prev, item, limit) == prev

savedListAtEnd(prev, item, limit) ==
  IF \E i \in 1..Len(prev) : prev[i].id = item.id
  THEN [i \in 1..Len(prev) |-> IF prev[i].id = item.id THEN item ELSE prev[i]]
  ELSE slice0(Append(prev, item), limit)

savedListUncut(prev, item, limit) ==
  IF \E i \in 1..Len(prev) : prev[i].id = item.id
  THEN [i \in 1..Len(prev) |-> IF prev[i].id = item.id THEN item ELSE prev[i]]
  ELSE <<item>> \o prev

savedList(prev, item, limit) ==
  LET index == IF \E i \in 1..Len(prev) : prev[i].id = item.id
               THEN CHOOSE i \in 1..Len(prev) :
                      /\ prev[i].id = item.id
                      /\ \A j \in 1..(i - 1) : prev[j].id # item.id
               ELSE 0
  IN IF index = 0 THEN slice0(<<item>> \o prev, limit)
     ELSE [i \in 1..Len(prev) |-> IF i = index THEN item ELSE prev[i]]

\* what savedList does with an item: it is rejected before the call, it takes
\* the place of the entry of its id, or it goes first
SaveKind(prev, item, rejected) ==
  IF rejected THEN "rejected"
  ELSE IF \E i \in 1..Len(prev) : prev[i].id = item.id THEN "replaced"
  ELSE "prepended"

\* prev.filter((item) => item.id !== id)
withoutId(prev, id) == SelectSeq(prev, LAMBDA item : item.id # id)

saveTemplate(payload) ==
  LET template ==
        cleanTemplate(payload, IF payload.id = NoId THEN nextUuid ELSE payload.id)
      templates == savedList(settings.templates, template, MaxTemplates)
  IN /\ payload.id = NoId => nextUuid <= MaxUuids
     /\ nextUuid' = IF payload.id = NoId THEN nextUuid + 1 ELSE nextUuid
     /\ lastSave' = SaveKind(settings.templates, template, templateRejected(template))
     /\ IF templateRejected(template)
        THEN UNCHANGED <<settings, userPreferences>>
        ELSE /\ settings' = [settings EXCEPT !.templates = templates]
             /\ persistPreferences("templates", templates)

deleteTemplate(id) ==
  LET templates == withoutId(settings.templates, id)
  IN /\ settings' = [settings EXCEPT !.templates = templates]
     /\ persistPreferences("templates", templates)
     /\ lastSave' = "none"
     /\ UNCHANGED nextUuid

saveFilter(payload) ==
  LET filter ==
        cleanFilter(payload, IF payload.id = NoId THEN nextUuid ELSE payload.id)
      savedFilters == savedList(settings.savedFilters, filter, MaxSavedFilters)
  IN /\ payload.id = NoId => nextUuid <= MaxUuids
     /\ nextUuid' = IF payload.id = NoId THEN nextUuid + 1 ELSE nextUuid
     /\ lastSave' = SaveKind(settings.savedFilters, filter, filter.name = <<>>)
     /\ IF filter.name = <<>>
        THEN UNCHANGED <<settings, userPreferences>>
        ELSE /\ settings' = [settings EXCEPT !.savedFilters = savedFilters]
             /\ persistPreferences("saved_filters", savedFilters)

deleteFilter(id) ==
  LET savedFilters == withoutId(settings.savedFilters, id)
  IN /\ settings' = [settings EXCEPT !.savedFilters = savedFilters]
     /\ persistPreferences("saved_filters", savedFilters)
     /\ lastSave' = "none"
     /\ UNCHANGED nextUuid

\* { ...prev.drafts, [key]: { values, updatedAt: new Date().toISOString() } }
saveDraft(key, values) ==
  LET drafts == {d \in settings.drafts : d.key # key}
                  \cup {[key |-> key, values |-> values, updatedAt |-> now]}
  IN /\ IF key = <<>>
        THEN UNCHANGED <<settings, userPreferences>>
        ELSE /\ settings' = [settings EXCEPT !.drafts = drafts]
             /\ persistPreferences("drafts", drafts)
     /\ UNCHANGED <<nextUuid, lastSave>>

clearDraft(key) ==
  LET drafts == {d \in settings.drafts : d.key # key}
  IN /\ IF drafts = settings.drafts
        THEN UNCHANGED <<settings, userPreferences>>
        ELSE /\ settings' = [settings EXCEPT !.drafts = drafts]
             /\ persistPreferences("drafts", drafts)
     /\ UNCHANGED <<nextUuid, lastSave>>

setProfile(profile) ==
  LET OrDefault(text, default) ==
        LET clean == slice0(normalizeWhitespace(text), 120)
        IN IF clean = <<>> THEN default ELSE clean
      clean ==
        [fullName |-> OrDefault(profile.fullName, DEFAULT_PROFILE.fullName),
         position |-> OrDefault(profile.position, DEFAULT_PROFILE.position)]
  IN /\ settings' = [settings EXCEPT !.profile = clean]
     /\ persistPreferences("profile", clean)
     /\ UNCHANGED <<nextUuid, lastSave>>

\* refresh, on prefsResult: the row is parsed into the settings; with no row
\* the defaults are set and upserted; with an error nothing is set
refreshPreferences ==
  /\ \/ /\ userPreferences.exists
        /\ settings' = parsePreferencesRow(userPreferences)
        /\ UNCHANGED userPreferences
     \/ /\ ~userPreferences.exists
        /\ settings' = DEFAULT_SETTINGS
        /\ \/ userPreferences' = DefaultRow
           \/ UNCHANGED userPreferences
     \/ UNCHANGED <<settings, userPreferences>>
  /\ lastSave' = "none"
  /\ UNCHANGED nextUuid

\* the same user saves a list from another device: the row takes a list that
\* a session of the application holds
OtherDeviceSaves(column, list) ==
  /\ userPreferences' =
       [(IF userPreferences.exists THEN userPreferences ELSE DefaultRow)
          EXCEPT ![column] = list]
  /\ UNCHANGED <<settings, nextUuid, lastSave>>

\* ------------------------------------------------------------------------
\* ProductivityProvider: the next action of each case
\* ------------------------------------------------------------------------
\* how many rows gen_random_uuid() names in expediente_next_actions
MaxActionIds == 3

\* normalizeWhitespace(payload.text).slice(0, 220)
LimitActionText == 220

VARIABLES
  nextActions,           \* useState<Record<string, NextAction>>({}): the entries
                         \* of the object, in the order of its keys
  prodLoading,           \* useState(true)
  expedienteNextActions, \* the rows of public.expediente_next_actions
  prodFetch,             \* the selects of refresh are in flight
  nextActionId,          \* the next id gen_random_uuid() gives to a row
  lastAction             \* what the client's last call did to nextActions

prodVars ==
  <<nextActions, prodLoading, expedienteNextActions, prodFetch, nextActionId,
    lastAction>>

\* completedAt: null
NoTime == 0 - 1

ProdInit ==
  /\ nextActions = <<>>
  /\ prodLoading = FALSE
  /\ expedienteNextActions = {}
  /\ prodFetch = "none"
  /\ nextActionId = 1
  /\ lastAction = "none"

\* prev[expedienteId]: the index of the entry of the key, 0 when there is none
EntryAt(prev, expedienteId) ==
  IF \E i \in 1..Len(prev) : prev[i].expedienteId = expedienteId
  THEN CHOOSE i \in 1..Len(prev) : prev[i].expedienteId = expedienteId
  ELSE 0

\* an object built by appending, whatever keys it has
appendEntry(prev, entry) == Append(prev, entry)

\* { ...prev, [expedienteId]: entry }: the value of a key the object has is
\* replaced where it is, a new key goes last
withEntry(prev, entry) ==
  IF EntryAt(prev, entry.expedienteId) = 0 THEN Append(prev, entry)
  ELSE [prev EXCEPT ![EntryAt(prev, entry.expedienteId)] = entry]

\* the entries whose key is in ids, in their order
RECURSIVE EntriesOf(_, _)
EntriesOf(prev, ids) ==
  IF prev = <<>> THEN <<>>
  ELSE IF Head(prev).expedienteId \in ids
       THEN <<Head(prev)>> \o EntriesOf(Tail(prev), ids)
       ELSE EntriesOf(Tail(prev), ids)

\* asDateOnly
asDateOnly(value, utcToday, eng) ==
  IF normalizeDateOnly(value, eng) = NullDate THEN utcToday
  ELSE normalizeDateOnly(value, eng)

rowToNextAction(row) ==
  [expedienteId |-> row.expediente_id, text |-> row.action_text,
   dueDate |-> row.due_date, completed |-> row.completed,
   updatedAt |-> row.updated_at, completedAt |-> row.completed_at]

\* Object.fromEntries(rows.map((row) => [row.expediente_id, rowToNextAction(row)]))
RECURSIVE fromEntries(_)
fromEntries(rows) ==
  IF rows = <<>> THEN <<>>
  ELSE withEntry(fromEntries(SubSeq(rows, 1, Len(rows) - 1)),
                 rowToNextAction(rows[Len(rows)]))

\* .select('*').eq('user_id', session.user.id): the rows, in an order the
\* backend picks
SelectNextActions(table, user) ==
  LET mine == {row \in table : row.user_id = user} IN
    {s \in [1..Cardinality(mine) -> mine] :
       \A i, j \in 1..Cardinality(mine) : i < j => s[i] # s[j]}

\* ------------------------------------------------------------------------
\* The backend handles a write to expediente_next_actions
\* ------------------------------------------------------------------------
PairRows(table, user, expedienteId) ==
  {row \in table : row.user_id = user /\ row.expediente_id = expedienteId}

\* upsert(..., { onConflict: 'user_id,expediente_id' }); expediente_id UUID
\* REFERENCES public.expedientes (id); updated_at is set by the column default
\* and by the trigger
ActionsUpsert(user, entry) ==
  LET same == PairRows(expedienteNextActions, user, entry.expedienteId)
      written(id) ==
        [id |-> id, user_id |-> user, expediente_id |-> entry.expedienteId,
         action_text |-> entry.text, due_date |-> ServerDate(entry.dueDate),
         completed |-> entry.completed, completed_at |-> entry.completedAt,
         updated_at |-> now]
  IN /\ isUuid(entry.expedienteId) /\ HasRow(entry.expedienteId)
     /\ IF same = {}
        THEN /\ nextActionId <= MaxActionIds
             /\ expedienteNextActions' =
                  expedienteNextActions \cup {written(nextActionId)}
             /\ nextActionId' = nextActionId + 1
        ELSE /\ expedienteNextActions' =
                  (expedienteNextActions \ same) \cup {written(row.id) : row \in same}
             /\ UNCHANGED nextActionId

\* update({ completed, completed_at }).eq('user_id', ...).eq('expediente_id', ...)
ActionsUpdate(user, expedienteId, completed, completedAt) ==
  /\ expedienteNextActions' =
       {IF row \in PairRows(expedienteNextActions, user, expedienteId)
        THEN [row EXCEPT !.completed = completed, !.completed_at = completedAt,
                         !.updated_at = now]
        ELSE row : row \in expedienteNextActions}
  /\ UNCHANGED nextActionId

\* delete().eq('user_id', ...).eq('expediente_id', ...)
ActionsDelete(user, expedienteId) ==
  /\ expedienteNextActions' =
       expedienteNextActions \ PairRows(expedienteNextActions, user, expedienteId)
  /\ UNCHANGED nextActionId

\* ------------------------------------------------------------------------
\* refresh and the effects
\* ------------------------------------------------------------------------
ProdSignIn ==
  /\ ~session /\ prodFetch = "none"
  /\ session' = TRUE
  /\ prodLoading' = TRUE
  /\ prodFetch' = "sent"
  /\ UNCHANGED <<nextActions, expedienteNextActions, nextActionId, lastAction>>

ProdSignOut ==
  /\ session
  /\ session' = FALSE
  /\ nextActions' = <<>>
  /\ prodLoading' = FALSE
  /\ lastAction' = "none"
  /\ settings' = DEFAULT_SETTINGS
  /\ lastSave' = "none"
  /\ UNCHANGED <<expedienteNextActions, prodFetch, nextActionId, userPreferences,
                 nextUuid>>

\* the backend answers the selects of the preferences and of the next actions,
\* each with its rows or with an error, and refresh goes on after its await
refreshResponse ==
  /\ prodFetch = "sent"
  /\ refreshPreferences
  /\ \/ /\ \E rows \in SelectNextActions(expedienteNextActions, "me") :
            nextActions' = fromEntries(rows)
        /\ lastAction' = "none"
     \/ UNCHANGED <<nextActions, lastAction>>
  /\ prodLoading' = FALSE
  /\ prodFetch' = "none"
  /\ UNCHANGED <<session, expedienteNextActions, nextActionId>>

\* the effect on [expedientes]: the snapshot of the cases changes, and the
\* entries of the cases it does not hold are dropped
ExpedientesChange(snapshot) ==
  /\ snapshot # expedientes
  /\ expedientes' = snapshot
  /\ nextActions' =
       EntriesOf(nextActions, {snapshot[i].id : i \in 1..Len(snapshot)})
  /\ lastAction' = "none"
  /\ UNCHANGED <<session, prodLoading, expedienteNextActions, prodFetch, nextActionId>>

\* ------------------------------------------------------------------------
\* The calls of the client
\* ------------------------------------------------------------------------
setNextAction(expedienteId, payload, utcToday, eng) ==
  LET text == slice0(normalizeWhitespace(payload.text), LimitActionText)
      optimistic ==
        [expedienteId |-> expedienteId, text |-> text,
         dueDate |-> asDateOnly(payload.dueDate, utcToday, eng),
         completed |-> payload.completed,
         completedAt |-> IF payload.completed THEN now ELSE NoTime,
         updatedAt |-> now]
  IN /\ session
     /\ text # <<>>
     /\ nextActions' = withEntry(nextActions, optimistic)
     /\ lastAction' = IF EntryAt(nextActions, expedienteId) = 0 THEN "added"
                      ELSE "replaced"
     /\ \/ ActionsUpsert("me", optimistic)
        \/ UNCHANGED <<expedienteNextActions, nextActionId>>
     /\ UNCHANGED <<session, prodLoading, prodFetch>>

toggleNextActionCompleted(expedienteId, completed) ==
  LET at == EntryAt(nextActions, expedienteId)
      completedAt == IF completed THEN now ELSE NoTime
  IN /\ session
     /\ at # 0
     /\ nextActions' = withEntry(nextActions,
                         [nextActions[at] EXCEPT !.completed = completed,
                                                 !.completedAt = completedAt,
                                                 !.updatedAt = now])
     /\ lastAction' = "toggled"
     /\ \/ ActionsUpdate("me", expedienteId, completed, completedAt)
        \/ UNCHANGED <<expedienteNextActions, nextActionId>>
     /\ UNCHANGED <<session, prodLoading, prodFetch>>

removeNextAction(expedienteId) ==
  /\ session
  /\ nextActions' =
       EntriesOf(nextActions,
                 {nextActions[i].expedienteId : i \in 1..Len(nextActions)}
                   \ {expedienteId})
  /\ lastAction' = "removed"
  /\ \/ ActionsDelete("me", expedienteId)
     \/ UNCHANGED <<expedienteNextActions, nextActionId>>
  /\ UNCHANGED <<session, prodLoading, prodFetch>>

\* ------------------------------------------------------------------------
\* Other sessions
\* ------------------------------------------------------------------------
\* setNextAction in a session of another user
OtherUserSets(expedienteId) ==
  /\ ActionsUpsert("other",
       [expedienteId |-> expedienteId, text |-> <<"a">>,
        dueDate |-> TodayLocal, completed |-> FALSE, completedAt |-> NoTime])
  /\ UNCHANGED <<session, nextActions, prodLoading, prodFetch, lastAction>>

\* ------------------------------------------------------------------------
\* The change feed of ExpedientesProvider, with the time of its timer
\* ------------------------------------------------------------------------
\* window.setTimeout(..., 120): the delay, in units of time of the model
DebounceWindow == 2

\* how many events of the change feed the client handles
MaxEvents == 4

VARIABLES
  feed    \* timers: the timers of the window that are pending, each with the
          \*   time left before it may run;
          \* refreshTimeout: the handle the effect keeps (0 is null);
          \* nextTimer: the handle the next setTimeout returns;
          \* sinceEvent: the time since the last event was handled, up to
          \*   the window;
          \* events: the events handled so far;
          \* burst: the events of the burst going on, each less than a window
          \*   after the one before;
          \* started: the refetches the timer started since the burst began;
          \* early: a refetch started less than a window after the last event

FeedInit ==
  feed = [timers |-> {}, refreshTimeout |-> 0, nextTimer |-> 1,
          sinceEvent |-> DebounceWindow, events |-> 0, burst |-> 0,
          started |-> 0, early |-> FALSE]

\* window.clearTimeout(id) leaves the other timers alone
clearTimeoutNoOp(timers, id) == timers

clearTimeout(timers, id) == {t \in timers : t.id # id}

\* the callback of .on('postgres_changes', ...): the pending timer is cleared
\* and a new one is set
FeedEvent ==
  LET cleared == IF feed.refreshTimeout # 0
                 THEN clearTimeout(feed.timers, feed.refreshTimeout)
                 ELSE feed.timers
      newBurst == feed.sinceEvent >= DebounceWindow
  IN /\ session
     /\ feed.events < MaxEvents
     /\ feed' = [feed EXCEPT
          !.timers = cleared \cup {[id |-> feed.nextTimer, left |-> DebounceWindow]},
          !.refreshTimeout = feed.nextTimer,
          !.nextTimer = @ + 1,
          !.sinceEvent = 0,
          !.events = @ + 1,
          !.burst = IF newBurst THEN 1 ELSE @ + 1,
          !.started = IF newBurst THEN 0 ELSE @]
     /\ timer' = TRUE
     /\ UNCHANGED <<session, expedientes, loading, error, server, nextId, fetches,
                    mut, result, lastRead>>

\* a unit of time passes; a timer whose time is up runs when the event loop
\* takes it, which may be later
FeedTick ==
  /\ feed.sinceEvent < DebounceWindow \/ \E t \in feed.timers : t.left > 0
  /\ feed' = [feed EXCEPT
       !.timers = {[t EXCEPT !.left = IF @ > 0 THEN @ - 1 ELSE 0] : t \in feed.timers},
       !.sinceEvent = IF @ < DebounceWindow THEN @ + 1 ELSE @]
  /\ UNCHANGED repoVars

\* the callback of a timer whose time is up: void fetchExpedientes()
FeedTimerFires ==
  \E t \in feed.timers :
    /\ t.left = 0
    /\ feed' = [feed EXCEPT
         !.timers = @ \ {t},
         !.started = @ + 1,
         !.early = @ \/ feed.sinceEvent < DebounceWindow]
    /\ timer' = (feed.timers \ {t} # {})
    /\ fetchExpedientes("bg")
    /\ UNCHANGED <<session, expedientes, server, nextId, mut, result, lastRead>>

\* ------------------------------------------------------------------------
\* A folio on its way through normalizeFolio and the create path
\* ------------------------------------------------------------------------
\* pieces a folio of the model is written with
MaxPieces == 5

VARIABLES
  probe   \* a folio as typed (f), normalizeFolio(f) (once), normalizeFolio of
          \* that (twice), what normalizeCreatePayload answers for a form with
          \* this folio (error) and the folio of the row inserted (persisted)

ProbeInit ==
  probe = [f |-> <<>>, done |-> FALSE, once |-> <<>>, twice |-> <<>>,
           error |-> NoError, persisted |-> <<>>]

\* normalizeFolio(f), normalizeFolio(normalizeFolio(f)), and createExpediente
\* up to the row its insert makes
NormalizesFolio ==
  /\ ~probe.done
  /\ LET v == normalizeCreatePayload([BaseCreate EXCEPT !.folio = probe.f], IsoEngine) IN
       probe' = [probe EXCEPT
                   !.done = TRUE,
                   !.once = normalizeFolio(probe.f),
                   !.twice = normalizeFolio(normalizeFolio(probe.f)),
                   !.error = v.error,
                   !.persisted = IF v.error = NoError
                                   THEN RowOfPayload(1, v.payload).folio ELSE <<>>]

\* ------------------------------------------------------------------------
\* Settings page: handleImportRespaldo (src/unnamed/part_005)
\* ------------------------------------------------------------------------
VARIABLES
  imp   \* the run of handleImportRespaldo: where it stands (pc), the array of
        \* the file (source), records, the index of the record of the loop
        \* (pos), existingFolios, the three counters and the notification it
        \* ends with (report)

ImpInit ==
  imp = [pc |-> "idle", source |-> <<>>, records |-> <<>>, pos |-> 1,
         existingFolios |-> {}, imported |-> 0, skipped |-> 0, failed |-> 0,
         report |-> "none"]

\* the handler up to the loop, for a .json file of at most 5 MB that parses
handleImportRespaldo(source, utcToday) ==
  /\ session /\ imp.pc = "idle" /\ mut.pc = "idle"
  /\ LET parsedRecords == parseBackupRecords(source, FallbackVisitador, utcToday, IsoEngine)
         records == SubSeq(parsedRecords, 1, Min2(Len(parsedRecords), MAX_BACKUP_RECORDS))
     IN imp' = [imp EXCEPT
                  !.pc = IF records = <<>> THEN "done" ELSE "loop",
                  !.source = source,
                  !.records = records,
                  !.existingFolios =
                    {toUpperCase(expedientes[k].folio) : k \in 1..Len(expedientes)},
                  !.report = IF records = <<>> THEN "Archivo sin datos validos" ELSE "none"]
  /\ UNCHANGED repoVars

\* one turn of the loop up to its await, or the await of refetch() after it
ImportLoop ==
  /\ imp.pc = "loop"
  /\ IF imp.pos > Len(imp.records)
       THEN /\ fetchExpedientes("import")
            /\ imp' = [imp EXCEPT !.pc = "refetch"]
            /\ UNCHANGED <<session, expedientes, server, nextId, mut, timer, result,
                           lastRead>>
     ELSE IF toUpperCase(imp.records[imp.pos].folio) \in imp.existingFolios
       THEN /\ imp' = [imp EXCEPT !.skipped = @ + 1, !.pos = @ + 1]
            /\ UNCHANGED repoVars
     ELSE /\ createExpediente(imp.records[imp.pos], IsoEngine)
          /\ imp' = [imp EXCEPT !.pc = "await"]

\* const { error } = await createExpediente(record), and the rest of the turn
ImportResumes ==
  /\ imp.pc = "await" /\ mut.pc = "idle" /\ result.kind \notin {"pending", "none"}
  /\ imp' = IF result.kind # "ok"
              THEN [imp EXCEPT !.pc = "loop", !.failed = @ + 1, !.pos = @ + 1]
              ELSE [imp EXCEPT !.pc = "loop", !.imported = @ + 1, !.pos = @ + 1,
                               !.existingFolios =
                                 @ \cup {toUpperCase(imp.records[imp.pos].folio)}]
  /\ UNCHANGED repoVars

\* refetch() ended: the notification with the three counters, setImporting(false)
ImportReports ==
  /\ imp.pc = "refetch" /\ \A f \in fetches : f.owner # "import"
  /\ imp' = [imp EXCEPT !.pc = "done", !.report = "Importacion completada"]
  /\ UNCHANGED repoVars
\* ------------------------------------------------------------------------
\* LoginPage: the failure counter and the lock of the form
\* ------------------------------------------------------------------------
MAX_FAILED_ATTEMPTS == 5

\* LOCK_TIME_MS in ticks of the clock of a second, scaled from 60
LockTime == 3

\* how far the clock runs
MaxClock == 7

VARIABLES
  login   \* the page: mounted, its state (failedAttempts, lockUntil, now,
          \* loading), the call of handleSubmit that awaits signIn (pc,
          \* credentials), sessionStorage (failCount, lockStored), the clock
          \* Date.now() reads, what the last submit did (last) and the failed
          \* sign-ins in a row the form was told of since the last success or
          \* lock (failures)

\* sessionStorage.getItem(key) of a key that was never set
NoItem == <<"null">>

RECURSIVE NumberOf(_)
\* Number(value) of a string of digits
NumberOf(s) ==
  IF s = <<>> THEN 0
  ELSE NumberOf(SubSeq(s, 1, Len(s) - 1)) * 10
         + ((CHOOSE i \in 1..10 : DigitChars[i] = s[Len(s)]) - 1)

\* Number(getItem(key) ?? '0'), and 0 when that is not finite
readSessionNumber(item) ==
  IF item = NoItem THEN 0
  ELSE IF \A i \in 1..Len(item) : IsDigit(item[i]) THEN NumberOf(item)
  ELSE 0

\* setItem(key, String(value))
writeSessionNumber(value) == Digits(value)

LoginInit ==
  login = [mounted |-> FALSE, failedAttempts |-> 0, lockUntil |-> 0, now |-> 1,
           loading |-> FALSE, pc |-> "idle", credentials |-> "none",
           failCount |-> NoItem, lockStored |-> NoItem, clock |-> 1,
           last |-> "none", failures |-> 0]

\* const isLocked = lockUntil > now
isLocked(l) == l.lockUntil > l.now

\* the effect on [isLocked, lockUntil]: a lock that is over is taken away
lockEffect(l) ==
  IF isLocked(l) \/ l.lockUntil = 0 THEN l
  ELSE [l EXCEPT !.lockUntil = 0, !.lockStored = writeSessionNumber(0)]

\* a lock that starts one failure late
locksAfter(nextAttempts) == nextAttempts > MAX_FAILED_ATTEMPTS

\* if (nextAttempts >= MAX_FAILED_ATTEMPTS)
locksAt(nextAttempts) == nextAttempts >= MAX_FAILED_ATTEMPTS

\* the page is mounted, for the first time, after a sign-out or by a reload
\* (which ends the call of handleSubmit that was running): the initial
\* states read sessionStorage and the clock
LoginPage ==
  /\ login' = lockEffect(
       [login EXCEPT !.mounted = TRUE,
                     !.failedAttempts = readSessionNumber(login.failCount),
                     !.lockUntil = readSessionNumber(login.lockStored),
                     !.now = login.clock,
                     !.loading = FALSE, !.pc = "idle", !.credentials = "none",
                     !.last = "none"])

\* a second goes by
ClockTicks ==
  /\ login.clock < MaxClock
  /\ login' = [login EXCEPT !.clock = login.clock + 1]

\* the interval of the effect on [isLocked]: setNow(Date.now())
IntervalFires ==
  /\ login.mounted /\ isLocked(login)
  /\ login' = lockEffect([login EXCEPT !.now = login.clock])

\* handleSubmit up to its await: the button is disabled while loading; the
\* credentials typed are malformed, wrong or right
loginSubmit(credentials) ==
  /\ login.mounted /\ ~login.loading
  /\ login' =
       IF isLocked(login) THEN [login EXCEPT !.last = "locked"]
       ELSE IF credentials = "malformed" THEN [login EXCEPT !.last = "invalid"]
       ELSE [login EXCEPT !.loading = TRUE, !.pc = "awaiting",
                          !.credentials = credentials, !.last = "pending"]

\* handleSubmit after the await of signIn, which never throws: signInError
\* is set for wrong credentials, and for right ones when the service cannot
\* be reached
loginResumes(signInError) ==
  /\ login.pc = "awaiting"
  /\ login.credentials = "wrong" => signInError
  /\ LET nextAttempts == login.failedAttempts + 1
         nextLockUntil == login.clock + LockTime
         done == [login EXCEPT !.loading = FALSE, !.pc = "idle",
                               !.credentials = "none"]
     IN login' =
          IF signInError
          THEN IF locksAt(nextAttempts)
               THEN [done EXCEPT !.lockUntil = nextLockUntil,
                                 !.now = login.clock,
                                 !.lockStored = writeSessionNumber(nextLockUntil),
                                 !.failedAttempts = 0,
                                 !.failCount = writeSessionNumber(0),
                                 !.last = "lock", !.failures = 0]
               ELSE [done EXCEPT !.failedAttempts = nextAttempts,
                                 !.failCount = writeSessionNumber(nextAttempts),
                                 !.last = "failed",
                                 !.failures = login.failures + 1]
          ELSE [done EXCEPT !.failedAttempts = 0, !.lockUntil = 0,
                            !.failCount = writeSessionNumber(0),
                            !.lockStored = writeSessionNumber(0),
                            !.mounted = FALSE,
                            !.last = "ok", !.failures = 0]
\* ------------------------------------------------------------------------
\* NuevoExpediente: the form of a new case and its draft
\* ------------------------------------------------------------------------
VARIABLES
  nuevo   \* the page: mounted, useState of form, saving, success, error and
          \* draftMessage; submitted is the form the running handleSubmit
          \* holds; autosave is the timer of the autosave effect; cleared
          \* tells that the user has not edited the form since the draft was
          \* last cleared by a submit or a discard

DRAFT_KEY == <<"n", "u", "e", "v", "o">>

\* `CEDHBC-${year}-${String(expedientes.length + 1).padStart(3, '0')}`
nextAutoFolio ==
  <<"C", "E", "D", "H", "B", "C", "-">> \o Digits(TodayLocal.y) \o <<"-">>
    \o padStart(Digits(Len(expedientes) + 1), 3)

\* the page is closed
NuevoInit ==
  nuevo = [mounted |-> FALSE, form |-> EMPTY, submitted |-> EMPTY, saving |-> FALSE,
           success |-> FALSE, error |-> NoError, draftMessage |-> "null",
           autosave |-> FALSE, cleared |-> FALSE]

\* validate
validate(form, eng) ==
  LET normalizedFolio == normalizeFolio(form.folio)
      normalizedDate == normalizeDateOnly(form.fecha_presentacion, eng)
      nextActionDate == normalizeDateOnly(form.next_action_due_date, eng)
  IN IF normalizedFolio = <<>> THEN "El numero de folio es obligatorio."
     ELSE IF ~isValidFolio(normalizedFolio)
       THEN "Formato de folio invalido. Use CEDHBC-AAAA-000."
     ELSE IF normalizedDate = NullDate THEN "La fecha de presentacion es obligatoria."
     ELSE IF isFutureDate(normalizedDate, eng)
       THEN "La fecha de presentacion no puede ser futura."
     ELSE IF normalizeWhitespace(form.tipo_derecho) = <<>>
       THEN "Seleccione el tipo de derecho vulnerado."
     ELSE IF normalizeWhitespace(form.autoridad_responsable) = <<>>
       THEN "La autoridad responsable es obligatoria."
     ELSE IF normalizeWhitespace(form.visitador_asignado) = <<>>
       THEN "Asigne un visitador al expediente."
     ELSE IF normalizeWhitespace(form.next_action_text) = <<>>
       THEN "La proxima accion es obligatoria para guardar el expediente."
     ELSE IF nextActionDate = NullDate
       THEN "La fecha de compromiso de la proxima accion es obligatoria."
     ELSE IF DateStrLess(nextActionDate, normalizedDate)
       THEN "La fecha de proxima accion no puede ser anterior a la fecha de presentacion."
     ELSE IF \E k \in 1..Len(expedientes) :
               toUpperCase(expedientes[k].folio) = normalizedFolio
       THEN "El folio ya existe en el sistema."
     ELSE NoError

\* the autosave effect, run after a render in which form or success changed:
\* its cleanup clears the timer, and it sets a new one unless success is set
\* (the page is not one that edits a case)
autosaveEffect(success) == ~success

\* set(field, value)
set(field, value) ==
  LET nextValue ==
        CASE field = "folio" -> slice0(toUpperCase(value), LimitFolio)
          [] field = "autoridad_responsable" -> slice0(value, LimitAutoridad)
          [] field = "notas_seguimiento" -> slice0(value, LimitNotas)
          [] field = "next_action_text" -> slice0(value, LimitActionText)
          [] OTHER -> value
  IN /\ nuevo.mounted /\ ~nuevo.success
     /\ nuevo' = [nuevo EXCEPT !.form = [nuevo.form EXCEPT ![field] = nextValue],
                               !.error = NoError,
                               !.autosave = autosaveEffect(nuevo.success),
                               !.cleared = FALSE]

\* the callback of the timer of 500 ms: saveDraft(DRAFT_KEY, form)
AutosaveFires ==
  /\ nuevo.mounted /\ nuevo.autosave
  /\ saveDraft(DRAFT_KEY, nuevo.form)
  /\ nuevo' = [nuevo EXCEPT !.autosave = FALSE]

\* handleSubmit up to its await
handleSubmit(utcToday, eng) ==
  /\ nuevo.mounted /\ ~nuevo.saving /\ ~nuevo.success
  /\ IF validate(nuevo.form, eng) # NoError
     THEN /\ nuevo' = [nuevo EXCEPT !.error = validate(nuevo.form, eng)]
          /\ UNCHANGED repoVars
     ELSE /\ nuevo' = [nuevo EXCEPT !.saving = TRUE, !.error = NoError,
                                    !.submitted = nuevo.form]
          /\ createExpediente(formPayload(nuevo.form, utcToday, eng), eng)

\* handleSubmit after its await: result.data is the row the insert returned
SubmitResumes(utcToday, eng) ==
  LET inserted == {row \in server : row.folio = normalizeFolio(nuevo.submitted.folio)}
      expedienteId == (CHOOSE row \in inserted : TRUE).id
  IN /\ nuevo.mounted /\ nuevo.saving
     /\ result.kind \notin {"none", "pending"}
     /\ IF result.kind # "ok"
        THEN /\ nuevo' = [nuevo EXCEPT !.saving = FALSE, !.error = result.msg]
             /\ UNCHANGED <<notifVars, prodVars, settings, userPreferences, nextUuid,
                            lastSave>>
        ELSE /\ inserted # {}
             /\ setNextAction(expedienteId,
                  [text |-> normalizeWhitespace(nuevo.submitted.next_action_text),
                   dueDate |-> normalizeDateOnly(nuevo.submitted.next_action_due_date, eng),
                   completed |-> FALSE], utcToday, eng)
             /\ clearDraft(DRAFT_KEY)
             /\ addNotification([type |-> "success", title |-> "Expediente registrado",
                                 message |-> "r"])
             /\ nuevo' = [nuevo EXCEPT !.saving = FALSE, !.success = TRUE,
                                       !.autosave = autosaveEffect(TRUE),
                                       !.cleared = TRUE]
     /\ UNCHANGED repoVars

\* handleReset of a page that does not edit a case
handleReset ==
  /\ nuevo.mounted /\ ~nuevo.success
  /\ clearDraft(DRAFT_KEY)
  /\ nuevo' = [nuevo EXCEPT !.form = [EMPTY EXCEPT !.folio = nextAutoFolio],
                            !.draftMessage = "Borrador limpiado.",
                            !.error = NoError,
                            !.autosave = autosaveEffect(nuevo.success),
                            !.cleared = TRUE]

\* window.setTimeout(() => navigate('/expedientes'), 1200): the page is closed
NuevoNavigates ==
  /\ nuevo.mounted /\ nuevo.success
  /\ nuevo' = [nuevo EXCEPT !.mounted = FALSE, !.autosave = FALSE]

\* ------------------------------------------------------------------------
\* The two providers under one session
\* ------------------------------------------------------------------------
\* the effect of ProductivityProvider on [expedientes], run for the snapshot
\* the step sets: the entries of the cases it does not hold are dropped
pruneNextActions ==
  /\ nextActions' =
       EntriesOf(nextActions, {expedientes'[i].id : i \in 1..Len(expedientes')})
  /\ lastAction' = "none"
  /\ UNCHANGED <<prodLoading, expedienteNextActions, prodFetch, nextActionId>>

\* setNextAction in a session of the same user on another device
OtherDeviceSetsAction(expedienteId) ==
  /\ ActionsUpsert("me",
       [expedienteId |-> expedienteId, text |-> <<"a">>,
        dueDate |-> TodayLocal, completed |-> FALSE, completedAt |-> NoTime])
  /\ UNCHANGED <<session, nextActions, prodLoading, prodFetch, lastAction>>

\* expediente_id ... REFERENCES public.expedientes (id) ON DELETE CASCADE
CascadeDelete(id) ==
  /\ expedienteNextActions' = {row \in expedienteNextActions : row.expediente_id # id}
  /\ UNCHANGED <<nextActions, prodLoading, prodFetch, nextActionId, lastAction>>
\* ------------------------------------------------------------------------
\* refresh of ProductivityProvider, step by step: the selects, the await,
\* the upsert of the defaults and its await
\* ------------------------------------------------------------------------
VARIABLES
  refreshCall   \* the call of refresh that is running: where it stands, and
                \* what the selects read (error tells that the select of the
                \* row failed)

NoRefresh ==
  [st |-> "none", error |-> FALSE, prefs |-> [DefaultRow EXCEPT !.exists = FALSE],
   actions |-> <<>>]

RefreshInit == refreshCall = NoRefresh

\* the effect on [refresh] of a session: setLoading(true), the two selects
\* leave for the backend
refreshStarts ==
  /\ ProdSignIn
  /\ refreshCall' = [NoRefresh EXCEPT !.st = "sent"]

\* the backend reads the row of the user and the user's next actions, or
\* fails to
refreshSelects ==
  /\ refreshCall.st = "sent"
  /\ \E failed \in BOOLEAN,
        actions \in SelectNextActions(expedienteNextActions, "me") :
       refreshCall' =
         [st |-> "read", error |-> failed,
          prefs |-> IF failed THEN NoRefresh.prefs ELSE userPreferences,
          actions |-> actions]
  /\ UNCHANGED <<session, prodVars, settings, userPreferences, nextUuid, lastSave>>

\* what refresh does with actionsResult, and setLoading(false)
refreshEnds ==
  /\ nextActions' = fromEntries(refreshCall.actions)
  /\ lastAction' = "none"
  /\ prodLoading' = FALSE
  /\ prodFetch' = "none"
  /\ UNCHANGED <<expedienteNextActions, nextActionId>>

\* refresh after the await of the selects: the row is parsed into the
\* settings; with no row the defaults are set and their upsert leaves for the
\* backend; with an error the settings stay
refreshResumes ==
  /\ refreshCall.st = "read"
  /\ IF refreshCall.error
     THEN /\ UNCHANGED <<settings, lastSave>>
          /\ refreshEnds
          /\ refreshCall' = NoRefresh
     ELSE IF refreshCall.prefs.exists
     THEN /\ settings' = parsePreferencesRow(refreshCall.prefs)
          /\ lastSave' = "none"
          /\ refreshEnds
          /\ refreshCall' = NoRefresh
     ELSE /\ settings' = DEFAULT_SETTINGS
          /\ lastSave' = "none"
          /\ refreshCall' = [refreshCall EXCEPT !.st = "upserting"]
          /\ UNCHANGED prodVars
  /\ UNCHANGED <<session, userPreferences, nextUuid>>

\* upsert({ user_id, ...toPreferencesPatch(initial) }, { onConflict: 'user_id' }):
\* INSERT ... ON CONFLICT (user_id) DO UPDATE SET every column of the patch
upsertOnConflict(row, values) == values

\* the backend handles the upsert of the defaults, or fails to; refresh goes
\* on after its await
refreshUpserts ==
  /\ refreshCall.st = "upserting"
  /\ \/ userPreferences' = upsertOnConflict(userPreferences, DefaultRow)
     \/ UNCHANGED userPreferences
  /\ refreshEnds
  /\ refreshCall' = NoRefresh
  /\ UNCHANGED <<session, settings, nextUuid, lastSave>>

\* ------------------------------------------------------------------------
\* The pages that count and filter the cases by status: Dashboard
\* (src/src/components/auth/ProtectedRoute.tsx), Reportes
\* (src/unnamed/part_004), ExpedientesList (src/unnamed/part_003)
\* ------------------------------------------------------------------------
\* cases of a snapshot the pages are given
MaxViewRows == 3

VARIABLES
  page   \* the page that rendered last: its status filter, its status
         \* distribution and the rows it lists

PageInit ==
  page = [view |-> "none", filterEstado |-> "Todos", estadoCounts |-> <<>>,
          filtered |-> <<>>, today |-> NullDate, queueItems |-> <<>>,
          queue |-> <<>>]

\* normalizeEstado of the dashboard: lower.includes('integr'), lower.includes('concili')
normalizeEstado(value) ==
  IF value \in {"En integracion", "En integración"} THEN "En integracion"
  ELSE IF value \in {"En conciliacion", "En conciliación"} THEN "En conciliacion"
  ELSE value

\* estadoCounts[name] = (estadoCounts[name] ?? 0) + 1 over the rows
estadoCounts(rows, name(_)) ==
  [n \in {name(rows[i].estado) : i \in 1..Len(rows)} |->
     Cardinality({i \in 1..Len(rows) : name(rows[i].estado) = n})]

\* actionableToday.slice(0, 8): the length of the queue shown, scaled
QueueLimit == 2

\* staleDays >= 30
StaleDays == 30

\* the days from 1 January of the year 0 to a date of the calendar
DayIndex(ds) ==
  LET before == <<0, 31, 59, 90, 120, 151, 181, 212, 243, 273, 304, 334>>
      leap == ds.y % 4 = 0 /\ (ds.y % 100 # 0 \/ ds.y % 400 = 0)
      years == ds.y - 1
  IN 365 * ds.y + (years \div 4) - (years \div 100) + (years \div 400)
       + before[ds.m] + (IF leap /\ ds.m > 2 THEN 1 ELSE 0) + ds.d

\* daysSince: Math.floor((now - new Date(dateStr)) / day), 0 for no date;
\* now is an instant of the UTC day today
daysSince(ds, today) ==
  IF ds.k # "date" THEN 0 ELSE DayIndex(today) - DayIndex(ds)

\* !['Resuelta', 'Archivada'].includes(estado)
abiertos(estado) == estado \notin {"Resuelta", "Archivada"}

\* a classification that looks at the last movement first
queueKindStaleFirst(overdue, dueToday, noAction, staleDays) ==
  IF staleDays >= StaleDays THEN "stale"
  ELSE IF overdue THEN "overdue"
  ELSE IF dueToday THEN "today"
  ELSE IF noAction THEN "missing"
  ELSE "planned"

\* kind: overdue ? 'overdue' : dueToday ? 'today' : noAction ? 'missing' : ...
queueKind(overdue, dueToday, noAction, staleDays) ==
  IF overdue THEN "overdue"
  ELSE IF dueToday THEN "today"
  ELSE IF noAction THEN "missing"
  ELSE IF staleDays >= StaleDays THEN "stale"
  ELSE "planned"

\* priority: overdue ? 0 : dueToday ? 1 : noAction ? 2 : staleDays >= 30 ? 3 : 4
queuePriority(kind) ==
  CASE kind = "overdue" -> 0 [] kind = "today" -> 1 [] kind = "missing" -> 2
    [] kind = "stale" -> 3 [] OTHER -> 4

\* the item the map of openCases makes of a case; dates are compared as strings
queueItem(item, actions, today) ==
  LET at == EntryAt(actions, item.id)
      noAction == at = 0
      overdue == /\ ~noAction
                 /\ DateStrLess(actions[at].dueDate, today)
                 /\ ~actions[at].completed
      dueToday == /\ ~noAction
                  /\ Render(actions[at].dueDate) = Render(today)
                  /\ ~actions[at].completed
      kind == queueKind(overdue, dueToday, noAction,
                        daysSince(item.fecha_ultimo_movimiento, today))
  IN [id |-> item.id, folio |-> item.folio, kind |-> kind,
      priority |-> queuePriority(kind),
      completed |-> IF noAction THEN FALSE ELSE actions[at].completed]

\* .sort((a, b) => a.priority - b.priority): lowest number first, items of
\* equal priority in the order they had
sortByPriority(list) ==
  LET n == Len(list)
      Before(i, j) == \/ list[i].priority < list[j].priority
                      \/ list[i].priority = list[j].priority /\ i < j
      Rank(i) == 1 + Cardinality({j \in 1..n : Before(j, i)})
  IN [k \in 1..n |-> list[CHOOSE i \in 1..n : Rank(i) = k]]

\* queueItems
queueItems(snapshot, actions, today) ==
  LET openCases == SelectSeq(snapshot, LAMBDA item : abiertos(item.estado))
  IN sortByPriority([i \in 1..Len(openCases) |-> queueItem(openCases[i], actions, today)])

\* actionableToday
actionableToday(items) ==
  SelectSeq(items, LAMBDA item : item.kind \in {"overdue", "today", "missing", "stale"})

\* Dashboard: data.estadoData and data.queue, computed on a day today (UTC)
Dashboard ==
  /\ session
  /\ \E today \in UtcTodayChoices :
       page' = [view |-> "dashboard", filterEstado |-> "Todos",
                estadoCounts |-> estadoCounts(expedientes, normalizeEstado),
                filtered |-> <<>>, today |-> today,
                queueItems |-> queueItems(expedientes, nextActions, today),
                queue |-> slice0(actionableToday(
                                   queueItems(expedientes, nextActions, today)),
                                 QueueLimit)]

\* Reportes: reportData.byEstado, for a period that holds every case
Reportes ==
  /\ session
  /\ LET raw(estado) == estado IN
       page' = [view |-> "reportes", filterEstado |-> "Todos",
                estadoCounts |-> estadoCounts(expedientes, raw), filtered |-> <<>>,
                today |-> NullDate, queueItems |-> <<>>, queue |-> <<>>]

\* ExpedientesList: filtered, with no search text and no other filter set
ExpedientesList(filterEstado) ==
  /\ session
  /\ LET matchEstado(exp) == filterEstado = "Todos" \/ exp.estado = filterEstado IN
       page' = [view |-> "lista", filterEstado |-> filterEstado, estadoCounts |-> <<>>,
                filtered |-> SelectSeq(expedientes, matchEstado),
                today |-> NullDate, queueItems |-> <<>>, queue |-> <<>>]

\* ------------------------------------------------------------------------
\* The variables of the pages and stores above
\* ------------------------------------------------------------------------
extVars == <<imp, page, probe, settings, userPreferences, nextUuid, lastSave, feed, nuevo, refreshCall, login>>

ExtInit ==
  ImpInit /\ PageInit /\ ProbeInit /\ PrefsInit /\ FeedInit /\ NuevoInit /\ RefreshInit /\ LoginInit
vars == <<repoVars, call, notifVars, prodVars, extVars>>

\* ------------------------------------------------------------------------
\* Spec: the case repository of one client, the backend, the change feed
\* and the other sessions
\* ------------------------------------------------------------------------
Init == RepoInit /\ NotifInit /\ ProdInit /\ ExtInit

Next ==
  \/ SignIn /\ UNCHANGED <<call, notifVars, prodVars, extVars>>
  \/ SignOut /\ UNCHANGED <<call, notifVars, prodVars, extVars>>
  \/ (\E data \in RepoCreateInputs : createExpediente(data, IsoEngine))
       /\ UNCHANGED <<call, notifVars, prodVars, extVars>>
  \/ (\E id \in IdInputs, data \in RepoUpdateInputs :
        updateExpediente(id, data, TodayLocal, IsoEngine))
       /\ UNCHANGED <<call, notifVars, prodVars, extVars>>
  \/ (\E id \in IdInputs : deleteExpediente(id))
       /\ UNCHANGED <<call, notifVars, prodVars, extVars>>
  \/ ServerMutation(TodayLocal) /\ UNCHANGED <<call, notifVars, prodVars, extVars>>
  \/ MutationReply /\ UNCHANGED <<call, notifVars, prodVars, extVars>>
  \/ MutationNetworkError /\ UNCHANGED <<call, notifVars, prodVars, extVars>>
  \/ (\E f \in fetches : ServerSelect(f)) /\ UNCHANGED <<call, notifVars, prodVars, extVars>>
  \/ (\E f \in fetches : FetchResponse(f)) /\ UNCHANGED <<call, notifVars, prodVars, extVars>>
  \/ (\E f \in fetches : FetchFails(f)) /\ UNCHANGED <<call, notifVars, prodVars, extVars>>
  \/ TimerFires /\ UNCHANGED <<call, notifVars, prodVars, extVars>>
  \/ (\E payload \in OtherPayloads : OtherInsert(payload, TodayLocal))
       /\ UNCHANGED <<call, notifVars, prodVars, extVars>>
  \/ (\E id \in 1..MaxIds : OtherDelete(id))
       /\ UNCHANGED <<call, notifVars, prodVars, extVars>>

Spec == Init /\ [][Next]_vars

\* ------------------------------------------------------------------------
\* SpecVal: one call of the repository, with any of the inputs, made by a
\* signed-in client whose snapshot holds ExistingRow, and followed to its end
\* ------------------------------------------------------------------------
InitVal ==
  /\ session = TRUE
  /\ expedientes = <<ExistingRow>>
  /\ loading = FALSE
  /\ error = NoError
  /\ server = {ExistingRow}
  /\ nextId = 2
  /\ fetches = {}
  /\ mut = Idle
  /\ timer = FALSE
  /\ result = NoResult
  /\ lastRead = <<ExistingRow>>
  /\ call = NoCall
  /\ NotifInit /\ ProdInit /\ ExtInit

Calls(op, id, data, utcToday, eng) ==
  /\ call' = [op |-> op, id |-> id, data |-> data, utcToday |-> utcToday, eng |-> eng]
  /\ UNCHANGED <<notifVars, prodVars, extVars>>

NextVal ==
  \/ /\ call = NoCall
     /\ \E data \in ValCreateInputs, eng \in Engines :
          createExpediente(data, eng) /\ Calls("create", 0, data, NullDate, eng)
  \/ /\ call = NoCall
     /\ \E id \in IdInputs, data \in ValUpdateInputs, utcToday \in UtcTodayChoices,
           eng \in Engines :
          updateExpediente(id, data, utcToday, eng)
            /\ Calls("update", id, data, utcToday, eng)
  \/ /\ call = NoCall
     /\ \E id \in IdInputs :
          deleteExpediente(id) /\ Calls("delete", id, EmptyPayload, NullDate, IsoEngine)
  \/ (\E currentDate \in UtcTodayChoices : ServerMutation(currentDate))
       /\ UNCHANGED <<call, notifVars, prodVars, extVars>>
  \/ MutationReply /\ UNCHANGED <<call, notifVars, prodVars, extVars>>
  \/ MutationNetworkError /\ UNCHANGED <<call, notifVars, prodVars, extVars>>
  \/ (\E f \in fetches : ServerSelect(f)) /\ UNCHANGED <<call, notifVars, prodVars, extVars>>
  \/ (\E f \in fetches : FetchResponse(f)) /\ UNCHANGED <<call, notifVars, prodVars, extVars>>
  \/ (\E f \in fetches : FetchFails(f)) /\ UNCHANGED <<call, notifVars, prodVars, extVars>>
  \/ TimerFires /\ UNCHANGED <<call, notifVars, prodVars, extVars>>

SpecVal == InitVal /\ [][NextVal]_vars


\* ------------------------------------------------------------------------
\* SpecNotif: the notification centre of one client, the backend and another
\* device of the user
\* ------------------------------------------------------------------------
repoRest ==
  <<expedientes, loading, error, server, nextId, fetches, mut, timer, result,
    lastRead, call>>

NextNotif ==
  \/ NotifSignIn /\ UNCHANGED <<repoRest, prodVars, extVars>>
  \/ NotifSignOut /\ UNCHANGED <<repoRest, prodVars, extVars>>
  \/ NotifFetchResponse /\ UNCHANGED <<repoRest, prodVars, extVars>>
  \/ (\E n \in AddInputs : addNotification(n)) /\ UNCHANGED <<repoRest, prodVars, extVars>>
  \/ (\E id \in NotifKeys, n \in SystemInputs : upsertSystemNotification(id, n))
       /\ UNCHANGED <<repoRest, prodVars, extVars>>
  \/ (\E id \in NotifKeys \cup {notifications[i].id : i \in 1..Len(notifications)} :
        removeNotification(id)) /\ UNCHANGED <<repoRest, prodVars, extVars>>
  \/ (\E i \in 1..Len(notifications) : markRead(notifications[i].id))
       /\ UNCHANGED <<repoRest, prodVars, extVars>>
  \/ markAllRead /\ UNCHANGED <<repoRest, prodVars, extVars>>
  \/ clearAll /\ UNCHANGED <<repoRest, prodVars, extVars>>
  \/ ClockTick /\ UNCHANGED <<repoRest, prodVars, extVars>>
  \/ (\E r \in OtherWrites : OtherDeviceWrites(r)) /\ UNCHANGED <<repoRest, prodVars, extVars>>

SpecNotif == Init /\ [][NextNotif]_vars

\* ------------------------------------------------------------------------
\* SpecProd: the next actions of one client whose user has one case, the
\* backend, and a session of another user
\* ------------------------------------------------------------------------
\* payload of setNextAction; completed is Boolean(payload.completed)
ActionInputs ==
  {[text |-> <<" ", "a">>, dueDate |-> DateS(2026, 6, 20, 4), completed |-> FALSE],
   [text |-> <<" ", "a">>, dueDate |-> JunkDate, completed |-> TRUE],
   [text |-> <<" ">>, dueDate |-> DateS(2026, 6, 20, 4), completed |-> FALSE]}

InitProd ==
  /\ session = FALSE
  /\ expedientes = <<>>
  /\ loading = FALSE
  /\ error = NoError
  /\ server = {ExistingRow}
  /\ nextId = 2
  /\ fetches = {}
  /\ mut = Idle
  /\ timer = FALSE
  /\ result = NoResult
  /\ lastRead = <<>>
  /\ call = NoCall
  /\ NotifInit /\ ProdInit /\ ExtInit

NextProd ==
  \/ ProdSignIn /\ UNCHANGED <<repoRest, notifVars, extVars>>
  \/ ProdSignOut /\ UNCHANGED <<repoRest, notifVars, imp, page, probe, feed, nuevo, refreshCall, login>>
  \/ refreshResponse /\ UNCHANGED <<repoRest, notifVars, imp, page, probe, feed, nuevo, refreshCall, login>>
  \/ (\E snapshot \in {<<>>, <<ExistingRow>>} : ExpedientesChange(snapshot))
       /\ UNCHANGED <<loading, error, server, nextId, fetches, mut, timer, result,
                      lastRead, call, notifVars, extVars>>
  \/ (\E id \in 1..MaxIds, payload \in ActionInputs :
        setNextAction(id, payload, TodayLocal, IsoEngine))
       /\ UNCHANGED <<repoRest, notifVars, extVars>>
  \/ (\E id \in 1..MaxIds, completed \in BOOLEAN :
        toggleNextActionCompleted(id, completed)) /\ UNCHANGED <<repoRest, notifVars, extVars>>
  \/ (\E id \in 1..MaxIds : removeNextAction(id)) /\ UNCHANGED <<repoRest, notifVars, extVars>>
  \/ (\E id \in 1..MaxIds : OtherUserSets(id)) /\ UNCHANGED <<repoRest, notifVars, extVars>>
  \/ ClockTick /\ UNCHANGED <<repoRest, prodVars, extVars>>

SpecProd == InitProd /\ [][NextProd]_vars

\* ------------------------------------------------------------------------
\* SpecDraft: a signed-in user with no case in the table has the form of a
\* new case open and has typed its first fields; the backend carries a write
\* out or does not
\* ------------------------------------------------------------------------
InitDraft ==
  /\ session = TRUE
  /\ expedientes = <<>>
  /\ loading = FALSE
  /\ error = NoError
  /\ server = {}
  /\ nextId = 1
  /\ fetches = {}
  /\ mut = Idle
  /\ timer = FALSE
  /\ result = NoResult
  /\ lastRead = <<>>
  /\ call = NoCall
  /\ NotifInit /\ ProdInit
  /\ ImpInit /\ PageInit /\ ProbeInit /\ FeedInit /\ RefreshInit /\ LoginInit
  /\ settings = DEFAULT_SETTINGS
  /\ userPreferences = DefaultRow
  /\ nextUuid = 1
  /\ lastSave = "none"
  /\ nuevo = [mounted |-> TRUE, form |-> TypedForm, submitted |-> EMPTY,
              saving |-> FALSE, success |-> FALSE, error |-> NoError,
              draftMessage |-> "null", autosave |-> TRUE, cleared |-> FALSE]

draftRest == <<imp, page, probe, feed, refreshCall, login>>

NextDraft ==
  \/ (\E value \in {<<>>, <<"a">>} : set("next_action_text", value))
       /\ UNCHANGED <<repoVars, call, notifVars, prodVars, imp, page, probe, settings, userPreferences, nextUuid, lastSave, feed, refreshCall, login>>
  \/ AutosaveFires /\ UNCHANGED <<repoVars, call, notifVars, prodVars, draftRest>>
  \/ handleSubmit(TodayLocal, IsoEngine)
       /\ UNCHANGED <<call, notifVars, prodVars, imp, page, probe, settings, userPreferences, nextUuid, lastSave, feed, refreshCall, login>>
  \/ SubmitResumes(TodayLocal, IsoEngine) /\ UNCHANGED <<call, draftRest>>
  \/ handleReset /\ UNCHANGED <<repoVars, call, notifVars, prodVars, draftRest>>
  \/ NuevoNavigates /\ UNCHANGED <<repoVars, call, notifVars, prodVars, imp, page, probe, settings, userPreferences, nextUuid, lastSave, feed, refreshCall, login>>
  \/ ServerMutation(TodayLocal) /\ UNCHANGED <<call, notifVars, prodVars, extVars>>
  \/ MutationReply /\ UNCHANGED <<call, notifVars, prodVars, extVars>>
  \/ MutationNetworkError /\ UNCHANGED <<call, notifVars, prodVars, extVars>>
  \/ (\E f \in fetches : ServerSelect(f)) /\ UNCHANGED <<call, notifVars, prodVars, extVars>>
  \/ (\E f \in fetches : FetchResponse(f)) /\ pruneNextActions
       /\ UNCHANGED <<call, notifVars, extVars>>
  \/ (\E f \in fetches : FetchFails(f)) /\ UNCHANGED <<call, notifVars, prodVars, extVars>>
  \/ TimerFires /\ UNCHANGED <<call, notifVars, prodVars, extVars>>

SpecDraft == InitDraft /\ [][NextDraft]_vars

\* ------------------------------------------------------------------------
\* SpecFeed: a signed-in client handles events of the change feed as time
\* passes, and the backend answers the refetches
\* ------------------------------------------------------------------------
NextFeed ==
  \/ FeedEvent /\ UNCHANGED <<call, notifVars, prodVars, imp, page, probe, settings, userPreferences, nextUuid, lastSave, nuevo, refreshCall, login>>
  \/ FeedTick /\ UNCHANGED <<call, notifVars, prodVars, imp, page, probe, settings, userPreferences, nextUuid, lastSave, nuevo, refreshCall, login>>
  \/ FeedTimerFires /\ UNCHANGED <<call, notifVars, prodVars, imp, page, probe, settings, userPreferences, nextUuid, lastSave, nuevo, refreshCall, login>>
  \/ (\E f \in fetches : ServerSelect(f)) /\ UNCHANGED <<call, notifVars, prodVars, extVars>>
  \/ (\E f \in fetches : FetchResponse(f)) /\ UNCHANGED <<call, notifVars, prodVars, extVars>>
  \/ (\E f \in fetches : FetchFails(f)) /\ UNCHANGED <<call, notifVars, prodVars, extVars>>
  \/ (\E payload \in OtherPayloads : OtherInsert(payload, TodayLocal))
       /\ UNCHANGED <<call, notifVars, prodVars, extVars>>

SpecFeed == InitVal /\ [][NextFeed]_vars

\* the event loop runs a timer whose time is up, time passes, and a select
\* is answered
SpecFeedLive ==
  /\ SpecFeed
  /\ WF_vars(FeedTick /\ UNCHANGED <<call, notifVars, prodVars, imp, page, probe, settings, userPreferences, nextUuid, lastSave, nuevo, refreshCall, login>>)
  /\ WF_vars(FeedTimerFires /\ UNCHANGED <<call, notifVars, prodVars, imp, page, probe, settings, userPreferences, nextUuid, lastSave, nuevo, refreshCall, login>>)
  /\ WF_vars((\E f \in fetches : ServerSelect(f))
               /\ UNCHANGED <<call, notifVars, prodVars, extVars>>)
  /\ WF_vars((\E f \in fetches : FetchResponse(f))
               /\ UNCHANGED <<call, notifVars, prodVars, extVars>>)

\* ------------------------------------------------------------------------
\* SpecFolio: normalizeFolio and the create path on the folios written with
\* at most MaxPieces pieces
\* ------------------------------------------------------------------------
InitFolio ==
  /\ RepoInit /\ NotifInit /\ ProdInit /\ ImpInit /\ PageInit /\ PrefsInit
  /\ FeedInit /\ NuevoInit /\ RefreshInit /\ LoginInit
  /\ \E n \in 0..MaxPieces :
       \E pieces \in [1..n -> {<<" ">>, <<"/">>, <<"-">>, <<" ", "/", " ">>,
                               <<"c","e","d","h","b","c">>, <<"C","E","D","H","B","C">>,
                               <<"2","0","2","6">>, <<"0","0","1">>, <<"0","1">>}] :
         LET RECURSIVE joined(_)
             joined(k) == IF k = 0 THEN <<>> ELSE joined(k - 1) \o pieces[k]
         IN probe = [f |-> joined(n), done |-> FALSE, once |-> <<>>, twice |-> <<>>,
                     error |-> NoError, persisted |-> <<>>]

NextFolio ==
  NormalizesFolio /\ UNCHANGED <<repoVars, call, notifVars, prodVars, imp, page, settings, userPreferences, nextUuid, lastSave, feed, nuevo, refreshCall, login>>

SpecFolio == InitFolio /\ [][NextFolio]_vars

\* ------------------------------------------------------------------------
\* SpecImport: one import of a backup file by a signed-in client whose
\* snapshot holds ExistingRow, the backend and the other sessions
\* ------------------------------------------------------------------------
NextImport ==
  \/ (\E source \in ImportBatches, utcToday \in UtcTodayChoices :
        handleImportRespaldo(source, utcToday))
       /\ UNCHANGED <<call, notifVars, prodVars, page, probe, settings, userPreferences, nextUuid, lastSave, feed, nuevo, refreshCall, login>>
  \/ ImportLoop /\ UNCHANGED <<call, notifVars, prodVars, page, probe, settings, userPreferences, nextUuid, lastSave, feed, nuevo, refreshCall, login>>
  \/ ImportResumes /\ UNCHANGED <<call, notifVars, prodVars, page, probe, settings, userPreferences, nextUuid, lastSave, feed, nuevo, refreshCall, login>>
  \/ ImportReports /\ UNCHANGED <<call, notifVars, prodVars, page, probe, settings, userPreferences, nextUuid, lastSave, feed, nuevo, refreshCall, login>>
  \/ ServerMutation(TodayLocal) /\ UNCHANGED <<call, notifVars, prodVars, extVars>>
  \/ MutationReply /\ UNCHANGED <<call, notifVars, prodVars, extVars>>
  \/ MutationNetworkError /\ UNCHANGED <<call, notifVars, prodVars, extVars>>
  \/ (\E f \in fetches : ServerSelect(f)) /\ UNCHANGED <<call, notifVars, prodVars, extVars>>
  \/ (\E f \in fetches : FetchResponse(f)) /\ UNCHANGED <<call, notifVars, prodVars, extVars>>
  \/ (\E f \in fetches : FetchFails(f)) /\ UNCHANGED <<call, notifVars, prodVars, extVars>>
  \/ (\E payload \in OtherPayloads : OtherInsert(payload, TodayLocal))
       /\ UNCHANGED <<call, notifVars, prodVars, extVars>>

SpecImport == InitVal /\ [][NextImport]_vars

\* ------------------------------------------------------------------------
\* SpecLogin: the login form, the clock and the reloads of the page
\* ------------------------------------------------------------------------
NextLogin ==
  \/ LoginPage /\ UNCHANGED <<repoVars, call, notifVars, prodVars, imp, page, probe, settings, userPreferences, nextUuid, lastSave, feed, nuevo, refreshCall>>
  \/ ClockTicks /\ UNCHANGED <<repoVars, call, notifVars, prodVars, imp, page, probe, settings, userPreferences, nextUuid, lastSave, feed, nuevo, refreshCall>>
  \/ IntervalFires /\ UNCHANGED <<repoVars, call, notifVars, prodVars, imp, page, probe, settings, userPreferences, nextUuid, lastSave, feed, nuevo, refreshCall>>
  \/ (\E credentials \in {"malformed", "wrong", "right"} : loginSubmit(credentials))
       /\ UNCHANGED <<repoVars, call, notifVars, prodVars, imp, page, probe, settings, userPreferences, nextUuid, lastSave, feed, nuevo, refreshCall>>
  \/ (\E signInError \in BOOLEAN : loginResumes(signInError))
       /\ UNCHANGED <<repoVars, call, notifVars, prodVars, imp, page, probe, settings, userPreferences, nextUuid, lastSave, feed, nuevo, refreshCall>>

SpecLogin == Init /\ [][NextLogin]_vars

\* ------------------------------------------------------------------------
\* SpecPrefs: the templates and the saved filters of a user, saved and
\* deleted on this device and on another one, and loaded by refresh
\* ------------------------------------------------------------------------
\* the ids a call can name: none, or one that crypto.randomUUID() gave
IdChoices == {NoId} \cup 1..MaxUuids

\* a save with no id names the entry, a save with an id renames it
TemplateInputs ==
  {[id |-> id, name |-> IF id = NoId THEN <<"a">> ELSE <<"b", " ">>,
    tipo_derecho |-> tipo, autoridad_responsable |-> <<"a">>,
    visitador_asignado |-> <<"a">>, estado |-> "Admitida"] :
     id \in IdChoices, tipo \in {<<"a">>, <<" ">>}}

FilterInputs ==
  {[id |-> id, search |-> <<"s", " ">>,
    name |-> IF blank THEN <<" ">> ELSE IF id = NoId THEN <<"a">> ELSE <<"b", " ">>] :
     id \in IdChoices, blank \in BOOLEAN}

\* the user works on one of the two lists: the other one is empty, here and
\* in the row
OnlyTemplates ==
  session /\ settings.savedFilters = <<>> /\ userPreferences.saved_filters = <<>>

OnlyFilters ==
  session /\ settings.templates = <<>> /\ userPreferences.templates = <<>>

\* the lists of templates a session of the application on another device
\* holds: none, or as many as the limit lets it keep, under ids its own
\* crypto.randomUUID() gave
OtherDeviceTemplates ==
  {<<>>,
   [i \in 1..MaxTemplates |->
      cleanTemplate([name |-> <<"a">>, tipo_derecho |-> <<"a">>,
                     autoridad_responsable |-> <<"a">>,
                     visitador_asignado |-> <<"a">>, estado |-> "Admitida"],
                    MaxUuids + i)]}

NextPrefs ==
  \/ ProdSignIn /\ UNCHANGED <<repoRest, notifVars, extVars>>
  \/ ProdSignOut /\ UNCHANGED <<repoRest, notifVars, imp, page, probe, feed, nuevo, refreshCall, login>>
  \/ refreshResponse /\ UNCHANGED <<repoRest, notifVars, imp, page, probe, feed, nuevo, refreshCall, login>>
  \/ (\E payload \in TemplateInputs :
        OnlyTemplates /\ payload.id < nextUuid /\ saveTemplate(payload))
       /\ UNCHANGED <<repoVars, call, notifVars, prodVars, imp, page, probe, feed, nuevo, refreshCall, login>>
  \/ (\E id \in 1..MaxUuids : OnlyTemplates /\ deleteTemplate(id))
       /\ UNCHANGED <<repoVars, call, notifVars, prodVars, imp, page, probe, feed, nuevo, refreshCall, login>>
  \/ (\E payload \in FilterInputs :
        OnlyFilters /\ payload.id < nextUuid /\ saveFilter(payload))
       /\ UNCHANGED <<repoVars, call, notifVars, prodVars, imp, page, probe, feed, nuevo, refreshCall, login>>
  \/ (\E id \in 1..MaxUuids : OnlyFilters /\ deleteFilter(id))
       /\ UNCHANGED <<repoVars, call, notifVars, prodVars, imp, page, probe, feed, nuevo, refreshCall, login>>
  \/ (\E list \in OtherDeviceTemplates :
        OnlyTemplates /\ OtherDeviceSaves("templates", list))
       /\ UNCHANGED <<repoVars, call, notifVars, prodVars, imp, page, probe, feed, nuevo, refreshCall, login>>

SpecPrefs == InitProd /\ [][NextPrefs]_vars

\* ------------------------------------------------------------------------
\* SpecPrune: the case repository and the next actions of one client, whose
\* user also works on another device, and other users who file and delete
\* cases
\* ------------------------------------------------------------------------
NextPrune ==
  \/ SignIn /\ ProdSignIn /\ UNCHANGED <<call, notifVars, extVars>>
  \/ SignOut /\ ProdSignOut
       /\ UNCHANGED <<call, notifVars, imp, page, probe, feed, nuevo, refreshCall, login>>
  \/ (\E f \in fetches : ServerSelect(f)) /\ UNCHANGED <<call, notifVars, prodVars, extVars>>
  \/ (\E f \in fetches : FetchFails(f)) /\ UNCHANGED <<call, notifVars, prodVars, extVars>>
  \/ (\E f \in fetches : FetchResponse(f)) /\ pruneNextActions
       /\ UNCHANGED <<call, notifVars, extVars>>
  \/ TimerFires /\ UNCHANGED <<call, notifVars, prodVars, extVars>>
  \/ refreshResponse
       /\ UNCHANGED <<repoRest, notifVars, imp, page, probe, feed, nuevo, refreshCall, login>>
  \/ (\E i \in 1..Len(expedientes), payload \in {p \in ActionInputs : ~p.completed} :
        setNextAction(expedientes[i].id, payload, TodayLocal, IsoEngine))
       /\ UNCHANGED <<repoRest, notifVars, extVars>>
  \/ (\E payload \in OtherPayloads : OtherInsert(payload, TodayLocal))
       /\ UNCHANGED <<call, notifVars, prodVars, extVars>>
  \/ (\E id \in 1..MaxIds : OtherDelete(id) /\ CascadeDelete(id))
       /\ UNCHANGED <<call, notifVars, extVars>>
  \/ (\E id \in 1..MaxIds : OtherDeviceSetsAction(id))
       /\ UNCHANGED <<repoRest, notifVars, extVars>>

SpecPrune == InitProd /\ [][NextPrune]_vars

\* ------------------------------------------------------------------------
\* SpecQueue: the dashboard renders a snapshot of up to MaxViewRows cases,
\* open and closed, moved lately or a month ago, with and without a next
\* action
\* ------------------------------------------------------------------------
\* the cases: estado, last movement, and the next action (due is NullDate
\* when the case has none)
QueueCases ==
  {[estado |-> "Admitida", moved |-> moved, due |-> a.due, completed |-> a.completed] :
     moved \in {DateS(2026, 5, 16, 4), DateS(2026, 6, 12, 4)},
     a \in {[due |-> NullDate, completed |-> FALSE],
            [due |-> DateS(2026, 6, 14, 4), completed |-> FALSE],
            [due |-> DateS(2026, 6, 14, 4), completed |-> TRUE],
            [due |-> DateS(2026, 6, 15, 4), completed |-> FALSE],
            [due |-> DateS(2026, 6, 16, 4), completed |-> FALSE]}}
  \cup {[estado |-> e, moved |-> DateS(2026, 5, 16, 4), due |-> DateS(2026, 6, 14, 4),
         completed |-> FALSE] : e \in {"Resuelta", "Archivada"}}

InitQueue ==
  /\ session = TRUE
  /\ \E n \in 0..MaxViewRows :
       \E cases \in [1..n -> QueueCases] :
         /\ expedientes =
              [i \in 1..n |-> [ExistingRow EXCEPT !.id = i, !.estado = cases[i].estado,
                                                  !.fecha_ultimo_movimiento = cases[i].moved]]
         /\ nextActions =
              fromEntries(
                SelectSeq([i \in 1..n |->
                             [expediente_id |-> i, action_text |-> <<"a">>,
                              due_date |-> cases[i].due,
                              completed |-> cases[i].completed, updated_at |-> 0,
                              completed_at |-> IF cases[i].completed THEN 0 ELSE NoTime]],
                          LAMBDA row : row.due_date # NullDate))
  /\ loading = FALSE
  /\ error = NoError
  /\ server = {}
  /\ nextId = 1
  /\ fetches = {}
  /\ mut = Idle
  /\ timer = FALSE
  /\ result = NoResult
  /\ lastRead = <<>>
  /\ call = NoCall
  /\ NotifInit /\ ExtInit
  /\ prodLoading = FALSE
  /\ expedienteNextActions = {}
  /\ prodFetch = "none"
  /\ nextActionId = 1
  /\ lastAction = "none"

NextQueue ==
  Dashboard /\ UNCHANGED <<repoVars, call, notifVars, prodVars, imp, probe, settings, userPreferences, nextUuid, lastSave, feed, nuevo, refreshCall, login>>

SpecQueue == InitQueue /\ [][NextQueue]_vars

\* ------------------------------------------------------------------------
\* SpecStart: a user with no row in user_preferences signs in and out; the
\* page is usable while refresh runs, and the user saves a filter and deletes
\* it
\* ------------------------------------------------------------------------
startRest == <<imp, page, probe, feed, nuevo, login>>

NextStart ==
  \/ refreshStarts
       /\ UNCHANGED <<repoRest, notifVars, imp, page, probe, settings, userPreferences, nextUuid, lastSave, feed, nuevo, login>>
  \/ (ProdSignOut /\ UNCHANGED refreshCall)
       /\ UNCHANGED <<repoRest, notifVars, startRest>>
  \/ refreshSelects /\ UNCHANGED <<repoRest, notifVars, startRest>>
  \/ refreshResumes /\ UNCHANGED <<repoRest, notifVars, startRest>>
  \/ refreshUpserts /\ UNCHANGED <<repoRest, notifVars, startRest>>
  \/ (\E payload \in {p \in FilterInputs : p.id = NoId /\ p.name = <<"a">>} :
        session /\ settings.savedFilters = <<>> /\ saveFilter(payload))
       /\ UNCHANGED <<repoVars, call, notifVars, prodVars, refreshCall, startRest>>
  \/ (\E i \in 1..Len(settings.savedFilters) :
        session /\ deleteFilter(settings.savedFilters[i].id))
       /\ UNCHANGED <<repoVars, call, notifVars, prodVars, refreshCall, startRest>>

SpecStart == InitProd /\ [][NextStart]_vars

\* ------------------------------------------------------------------------
\* SpecViews: the three pages render a snapshot whose cases are stored with
\* any of the spellings the table admits
\* ------------------------------------------------------------------------
InitViews ==
  /\ session = TRUE
  /\ \E n \in 0..MaxViewRows :
       \E estados \in [1..n -> {"Admitida", "En integracion", "En integración",
                                "En conciliacion", "En conciliación", "Resuelta",
                                "Archivada"}] :
         expedientes = [i \in 1..n |-> [ExistingRow EXCEPT !.id = i, !.estado = estados[i]]]
  /\ loading = FALSE
  /\ error = NoError
  /\ server = {}
  /\ nextId = 1
  /\ fetches = {}
  /\ mut = Idle
  /\ timer = FALSE
  /\ result = NoResult
  /\ lastRead = <<>>
  /\ call = NoCall
  /\ NotifInit /\ ProdInit /\ ExtInit

NextViews ==
  \/ Dashboard /\ UNCHANGED <<repoVars, call, notifVars, prodVars, imp, probe, settings, userPreferences, nextUuid, lastSave, feed, nuevo, refreshCall, login>>
  \/ Reportes /\ UNCHANGED <<repoVars, call, notifVars, prodVars, imp, probe, settings, userPreferences, nextUuid, lastSave, feed, nuevo, refreshCall, login>>
  \/ (\E i \in 1..Len(ESTADOS) \cup {0} :
        ExpedientesList(IF i = 0 THEN "Todos" ELSE ESTADOS[i]))
       /\ UNCHANGED <<repoVars, call, notifVars, prodVars, imp, probe, settings, userPreferences, nextUuid, lastSave, feed, nuevo, refreshCall, login>>

SpecViews == InitViews /\ [][NextViews]_vars

\* ------------------------------------------------------------------------
\* SpecOptimistic: every mutation of the ProductivityProvider, called by a
\* user on the case ExistingRow, with a backend that carries a write out or
\* does not; the user saves a first template and a first filter, one draft
\* and one profile
\* ------------------------------------------------------------------------
ProfileInputs == {[fullName |-> <<"x", " ">>, position |-> <<" ">>]}

NextOptimistic ==
  \/ ProdSignIn /\ UNCHANGED <<repoRest, notifVars, extVars>>
  \/ ProdSignOut
       /\ UNCHANGED <<repoRest, notifVars, imp, page, probe, feed, nuevo, refreshCall, login>>
  \/ refreshResponse
       /\ UNCHANGED <<repoRest, notifVars, imp, page, probe, feed, nuevo, refreshCall, login>>
  \/ (\E payload \in {p \in ActionInputs : ~p.completed} :
        setNextAction(ExistingRow.id, payload, TodayLocal, IsoEngine))
       /\ UNCHANGED <<repoRest, notifVars, extVars>>
  \/ (\E completed \in BOOLEAN : toggleNextActionCompleted(ExistingRow.id, completed))
       /\ UNCHANGED <<repoRest, notifVars, extVars>>
  \/ removeNextAction(ExistingRow.id) /\ UNCHANGED <<repoRest, notifVars, extVars>>
  \/ (\E payload \in {p \in TemplateInputs : p.id = NoId /\ p.tipo_derecho = <<"a">>} :
        session /\ settings.templates = <<>> /\ nextUuid <= 2 /\ saveTemplate(payload))
       /\ UNCHANGED <<repoVars, call, notifVars, prodVars,
                      imp, page, probe, feed, nuevo, refreshCall, login>>
  \/ (\E payload \in {p \in FilterInputs : p.id = NoId /\ p.name = <<"a">>} :
        session /\ settings.savedFilters = <<>> /\ nextUuid <= 2 /\ saveFilter(payload))
       /\ UNCHANGED <<repoVars, call, notifVars, prodVars,
                      imp, page, probe, feed, nuevo, refreshCall, login>>
  \/ (session /\ saveDraft(<<"k">>, <<"v">>))
       /\ UNCHANGED <<repoVars, call, notifVars, prodVars,
                      imp, page, probe, feed, nuevo, refreshCall, login>>
  \/ (session /\ clearDraft(<<"k">>))
       /\ UNCHANGED <<repoVars, call, notifVars, prodVars,
                      imp, page, probe, feed, nuevo, refreshCall, login>>
  \/ (\E profile \in ProfileInputs : session /\ setProfile(profile))
       /\ UNCHANGED <<repoVars, call, notifVars, prodVars,
                      imp, page, probe, feed, nuevo, refreshCall, login>>

SpecOptimistic == InitProd /\ [][NextOptimistic]_vars
\* ------------------------------------------------------------------------
\* Properties of the case repository
\* ------------------------------------------------------------------------
\* C1: after a successful createExpediente, updateExpediente or
\* deleteExpediente, once no fetch is in flight, the snapshot is the table as
\* the latest read saw it.
SnapshotIsLatestRead ==
  (session /\ mut.pc = "idle" /\ result.kind = "ok" /\ fetches = {})
    => expedientes = lastRead

\* C2: createExpediente of a form that passes validation and whose folio
\* equals, ignoring case, the folio of a record of the snapshot returns the
\* conflict error and sends nothing, so the snapshot and the table keep their
\* records; and no two records of the snapshot have folios equal ignoring case.
DuplicateFolioRejected ==
  /\ [](\A i, j \in 1..Len(expedientes) :
          i # j => toUpperCase(expedientes[i].folio) # toUpperCase(expedientes[j].folio))
  /\ [][\A data \in RepoCreateInputs :
          ( /\ createExpediente(data, IsoEngine)
            /\ ValidatedCreate[data, IsoEngine].error = NoError
            /\ \E k \in 1..Len(expedientes) :
                 toUpperCase(expedientes[k].folio) = toUpperCase(data.folio) )
          => /\ result' = [kind |-> "conflict", msg |-> "El folio ya existe."]
             /\ UNCHANGED <<expedientes, server, mut, fetches>>]_vars

\* C2, witness: a create was turned down as a duplicate of a snapshot record
DuplicateFolioSeen ==
  /\ result.kind = "conflict" /\ mut.pc = "idle"
  /\ \E k \in 1..Len(expedientes) : expedientes[k].folio = FolioA

\* C3: the record a create or an update sends to the backend (for an update,
\* the snapshot record overlaid with the patch) has its last movement on or
\* after its filing, and neither date after today.
SentDatesInOrder ==
  [][(mut.pc = "idle" /\ mut'.pc = "sent" /\ mut'.op # "delete") =>
       LET row == IF mut'.op = "insert"
                    THEN RowOfPayload(0, mut'.payload)
                    ELSE Overlay(current(mut'.id), mut'.payload)
       IN /\ DateNum(row.fecha_ultimo_movimiento) >= DateNum(row.fecha_presentacion)
          /\ DateNum(row.fecha_presentacion) <= DateNum(TodayLocal)
          /\ DateNum(row.fecha_ultimo_movimiento) <= DateNum(TodayLocal)]_vars

\* C4: a call that returns a validation error sent nothing, started no fetch
\* and left the snapshot alone; a create with a well-formed folio and
\* tomorrow's filing date returns the future-date error, a create with a
\* status outside the enumeration and an update with an empty patch return
\* validation errors.
ValidationErrorsStayLocal ==
  /\ []( /\ ( /\ call.op = "create"
              /\ call.data.fecha_presentacion = Tomorrow
              /\ isValidFolio(normalizeFolio(call.data.folio)) )
            => ( /\ result = [kind |-> "validation",
                              msg |-> "La fecha de presentacion no puede ser futura."]
                 /\ mut = Idle /\ fetches = {} /\ server = {ExistingRow} )
         /\ (call.op = "create" /\ call.data.estado = "Cerrada")
            => (result.kind = "validation" /\ mut = Idle)
         /\ (call.op = "update" /\ call.id = 1 /\ call.data = EmptyPayload)
            => (result = [kind |-> "validation", msg |-> "No hay cambios para guardar."]
                /\ mut = Idle) )
  /\ [][(call' # call /\ result'.kind = "validation")
          => UNCHANGED <<mut, fetches, server, expedientes, nextId, timer, loading>>]_vars

\* C4, witness: a create with tomorrow's filing date was turned down
FutureFilingSeen ==
  /\ call.op = "create" /\ call.data.folio = FolioA
  /\ call.data.fecha_presentacion = Tomorrow
  /\ result.kind = "validation"

LastMovementAdvance ==
  [][(call' # call /\ call'.op = "update" /\ mut'.pc = "sent") =>
       LET data == call'.data
           sent == mut'.payload.fecha_ultimo_movimiento
       IN IF data.fecha_ultimo_movimiento # NullDate
            THEN DateNum(sent) = DateNum(data.fecha_ultimo_movimiento)
          ELSE IF \/ data.estado # UndefEstado
                  \/ data.autoridad_responsable # Undef
                  \/ data.visitador_asignado # Undef
                  \/ data.notas_seguimiento # Undef
            THEN sent = TodayLocal
          ELSE sent = NullDate]_vars

\* C10: an accepted create that gave no last-movement date and no status is
\* sent with the last movement on the filing date, the status Admitida and
\* the month label of the filing date.
CreateDefaults ==
  [][( /\ call' # call /\ call'.op = "create" /\ mut'.pc = "sent"
       /\ call'.data.fecha_ultimo_movimiento = NullDate
       /\ call'.data.estado = UndefEstado )
     => LET p == mut'.payload IN
          /\ DateNum(p.fecha_ultimo_movimiento) = DateNum(p.fecha_presentacion)
          /\ p.estado = "Admitida"
          /\ p.mes_registro =
               MonthYearLabel(p.fecha_presentacion.m, p.fecha_presentacion.y)]_vars

RetentionNewestFirst ==
  /\ [](/\ Len(notifications) <= MAX_NOTIFICATIONS
        /\ \A i, j \in 1..Len(notifications) :
             i < j => notifications[i].timestamp >= notifications[j].timestamp)
  /\ [][nextLocalId' = nextLocalId + 1 =>
          LET made == LocalId(nextLocalId)
              old == {notifications[i] : i \in 1..Len(notifications)}
              kept == {notifications'[i] : i \in 1..Len(notifications')}
              keptOld == {e \in kept : e.id # made}
          IN /\ keptOld \subseteq old
             /\ Len(notifications') = Min2(Len(notifications) + 1, MAX_NOTIFICATIONS)
             /\ Cardinality(kept) = Len(notifications')
             /\ \A e \in kept : e.id = made => e.timestamp = now
             /\ \A d \in old \ keptOld : \A e \in kept : d.timestamp <= e.timestamp
             /\ (\A e \in kept : e.id # made) => \A e \in kept : now <= e.timestamp]_vars

\* C7, witness: the list is full and the last call, which added an entry,
\* cut one off
RetentionCutSeen ==
  /\ last.did = "created" /\ last.cut
  /\ Len(notifications) = MAX_NOTIFICATIONS
  /\ nextLocalId > MAX_NOTIFICATIONS + 1

\* ------------------------------------------------------------------------
\* Claims about the next actions (SpecProd)
\* ------------------------------------------------------------------------
\* C8: nextActions never holds two entries of one case, the table never holds
\* two rows of one user and case, and setNextAction for a case that has an
\* entry leaves the number and the order of the entries as they were and
\* puts the new values in the entry of the case.
OneNextActionPerCase ==
  /\ [](\A i, j \in 1..Len(nextActions) :
          nextActions[i].expedienteId = nextActions[j].expedienteId => i = j)
  /\ [](\A a, b \in expedienteNextActions :
          (a.user_id = b.user_id /\ a.expediente_id = b.expediente_id) => a = b)
  /\ [][\A id \in 1..MaxIds, payload \in ActionInputs :
          (/\ setNextAction(id, payload, TodayLocal, IsoEngine)
           /\ \E i \in 1..Len(nextActions) : nextActions[i].expedienteId = id) =>
            /\ Len(nextActions') = Len(nextActions)
            /\ \A i \in 1..Len(nextActions) :
                 IF nextActions[i].expedienteId = id
                 THEN /\ nextActions'[i].expedienteId = id
                      /\ nextActions'[i].text = <<"a">>
                      /\ nextActions'[i].completed = payload.completed
                      /\ nextActions'[i].updatedAt = now
                 ELSE nextActions'[i] = nextActions[i]]_vars

\* C8, witness: setNextAction has replaced the entry of the first of two
\* cases, after the second was set, and the table holds the row of the user
\* and the row of another user for that case
NextActionReplaced ==
  /\ lastAction = "replaced"
  /\ Len(nextActions) = 2
  /\ nextActions[1].updatedAt > nextActions[2].updatedAt
  /\ \E a, b \in expedienteNextActions :
       /\ a.expediente_id = nextActions[1].expedienteId /\ a.user_id = "me"
       /\ b.expediente_id = nextActions[1].expedienteId /\ b.user_id = "other"
       /\ a.updated_at = nextActions[1].updatedAt

\* ------------------------------------------------------------------------
\* Claims on the backup import
\* ------------------------------------------------------------------------
\* C11: an import that ends with its report has counted every record of the
\* batch: imported + skipped + failed is the number of records of the file,
\* and the records with an invalid folio are among the failed ones.
ImportCountsCoverBatch ==
  imp.report = "Importacion completada" =>
    /\ imp.imported + imp.skipped + imp.failed = Len(imp.source)
    /\ imp.failed >=
         Cardinality({i \in 1..Len(imp.source) :
                        imp.source[i].object /\ ~isValidFolio(normalizeFolio(imp.source[i].folio))})

\* ------------------------------------------------------------------------
\* Claims on the status-based views
\* ------------------------------------------------------------------------
\* C12: the two spellings of 'En integración' and of 'En conciliación' are one
\* state for every page: a status distribution has one bucket per state, which
\* counts the cases of both spellings, and the list filtered by a state shows
\* the cases of both spellings.
SpellingsShareBucket ==
  LET state(e) ==
        IF e = "En integracion" THEN "En integración"
        ELSE IF e = "En conciliacion" THEN "En conciliación" ELSE e
      rows(s) == {i \in 1..Len(expedientes) : state(expedientes[i].estado) = s}
  IN /\ page.view \in {"dashboard", "reportes"} =>
          \A i \in 1..Len(expedientes) :
            \E name \in DOMAIN page.estadoCounts :
              /\ state(name) = state(expedientes[i].estado)
              /\ page.estadoCounts[name] = Cardinality(rows(state(name)))
     /\ page.view = "lista" /\ page.filterEstado # "Todos" =>
          page.filtered = SelectSeq(expedientes,
                            LAMBDA exp : state(exp.estado) = page.filterEstado)

\* ------------------------------------------------------------------------
\* Claims on the folio
\* ------------------------------------------------------------------------
\* C13: normalizing a folio twice gives what normalizing it once gives; and a
\* folio the create path accepts is valid once normalized and is persisted as
\* its normal form: upper case, no whitespace and no slash.
FolioNormalForm ==
  probe.done =>
    /\ probe.twice = probe.once
    /\ probe.error = NoError =>
         /\ isValidFolio(probe.once)
         /\ probe.persisted = probe.once
         /\ probe.persisted = toUpperCase(probe.persisted)
         /\ \A i \in 1..Len(probe.persisted) : probe.persisted[i] \notin {" ", "/"}

\* an accepted folio that was typed in lower case with slashes and spaces
FolioRewritten ==
  /\ probe.done /\ probe.error = NoError
  /\ probe.f # toUpperCase(probe.f)
  /\ \E i \in 1..Len(probe.f) : probe.f[i] = "/"
  /\ \E i \in 1..Len(probe.f) : probe.f[i] = " "

ListsWithinLimits ==
  /\ Len(settings.templates) <= MaxTemplates
  /\ Len(settings.savedFilters) <= MaxSavedFilters

\* the full list of the other device was loaded, and a save put a new
\* template first: the list is as long as the limit allows and the last
\* template of the other device is gone
FullListTookNewest ==
  /\ lastSave = "prepended"
  /\ Len(settings.templates) = MaxTemplates
  /\ settings.templates[1].id <= MaxUuids
  /\ \A i \in 2..MaxTemplates : settings.templates[i].id = MaxUuids + i - 1

\* C20: saveTemplate and saveFilter with the id of an entry of the list put
\* the new entry where that entry was and leave the others where they were;
\* with no id or an id the list does not hold, the new entry goes first and
\* the others follow in their order; a rejected entry changes nothing; the
\* ids of a list are pairwise distinct
SaveReplacesOrPrepends ==
  [][LET Distinct(list) ==
           \A i, j \in 1..Len(list) : i < j => list[i].id # list[j].id
         Saved(prev, next, item, rejected) ==
           IF rejected THEN next = prev
           ELSE IF \E i \in 1..Len(prev) : prev[i].id = item.id
           THEN /\ Len(next) = Len(prev)
                /\ \A i \in 1..Len(prev) :
                     next[i] = IF prev[i].id = item.id THEN item ELSE prev[i]
           ELSE /\ Len(next) >= 1 /\ Len(next) <= Len(prev) + 1
                /\ next[1] = item
                /\ \A i \in 2..Len(next) : next[i] = prev[i - 1]
         IdOf(payload) == IF payload.id = NoId THEN nextUuid ELSE payload.id
     IN /\ Distinct(settings'.templates) /\ Distinct(settings'.savedFilters)
        /\ lastSave' = "none" \/ \A payload \in TemplateInputs :
             payload.id < nextUuid /\ saveTemplate(payload) =>
               Saved(settings.templates, settings'.templates,
                     cleanTemplate(payload, IdOf(payload)),
                     templateRejected(cleanTemplate(payload, IdOf(payload))))
        /\ lastSave' = "none" \/ \A payload \in FilterInputs :
             payload.id < nextUuid /\ saveFilter(payload) =>
               Saved(settings.savedFilters, settings'.savedFilters,
                     cleanFilter(payload, IdOf(payload)),
                     cleanFilter(payload, IdOf(payload)).name = <<>>)]_vars

\* a save with the id of the second template of the list renamed it where
\* it was
SecondTemplateReplaced ==
  /\ lastSave = "replaced"
  /\ Len(settings.templates) >= 2
  /\ settings.templates[1].name = <<"a">>
  /\ settings.templates[2].name = <<"b">>

BurstGetsOneRefetch ==
  /\ [](/\ Cardinality(feed.timers) <= 1
        /\ ~feed.early
        /\ feed.started <= 1
        /\ feed.burst > 0 /\ feed.started = 0 => Cardinality(feed.timers) = 1
        /\ feed.started = 1 => feed.timers = {})
  /\ <>[](feed.burst > 0 => feed.started = 1)

\* a burst of two events or more was followed by its refetch
BurstCoalesced == feed.burst >= 2 /\ feed.started = 1

\* C18: when the snapshot of the cases changes while the user is signed in,
\* the keys of the next actions left are ids of cases of the snapshot, the
\* entries of the cases of the snapshot are as they were, and no entry of a
\* case that the server still holds is dropped
PruneFollowsSnapshot ==
  [][\A f \in fetches :
       FetchResponse(f) /\ session =>
         LET ids == {f.data[i].id : i \in 1..Len(f.data)} IN
           /\ \A j \in 1..Len(nextActions') : nextActions'[j].expedienteId \in ids
           /\ \A i \in 1..Len(nextActions) :
                nextActions[i].expedienteId \in ids =>
                  \E j \in 1..Len(nextActions') : nextActions'[j] = nextActions[i]
           /\ \A i \in 1..Len(nextActions) :
                HasRow(nextActions[i].expedienteId) =>
                  \E j \in 1..Len(nextActions') :
                    nextActions'[j].expedienteId = nextActions[i].expedienteId]_vars

\* ------------------------------------------------------------------------
\* C21. A call of upsertSystemNotification that finds the entry of its key
\* with the same title, message, type and read flag writes nothing: the step
\* leaves the list as it was and the rows of that key in user_notifications,
\* with their timestamps, as they were.
\* ------------------------------------------------------------------------
UnchangedUpsertWritesNothing ==
  [][(last'.op = "upsert" /\ last'.did = "unchanged") =>
       /\ notifications' = notifications
       /\ {row \in userNotifications' : row.client_id = last'.id}
            = {row \in userNotifications : row.client_id = last'.id}]_vars

\* ------------------------------------------------------------------------
\* C22. removeNextAction for a case that has no entry in the local map is a
\* no-op: a step of removeNextAction that leaves nextActions as it was leaves
\* the user's rows of expediente_next_actions as they were (no delete is
\* issued).
\* ------------------------------------------------------------------------
AbsentKeyIsNoOp ==
  [][(lastAction' = "removed" /\ nextActions' = nextActions) =>
       {row \in expedienteNextActions' : row.user_id = "me"}
         = {row \in expedienteNextActions : row.user_id = "me"}]_vars

\* ------------------------------------------------------------------------
\* C23. setNextAction writes an entry only when the text is not empty after
\* normalizeWhitespace and the due date can be read as a date: every step of
\* setNextAction that writes has such a payload; and an entry it stores has a
\* text of at most 220 characters and a due date that is a calendar date.
\* ------------------------------------------------------------------------
NextActionNeedsValidPayload ==
  [][\A id \in 1..MaxIds, payload \in ActionInputs :
       (setNextAction(id, payload, TodayLocal, IsoEngine) /\ now' = now) =>
         /\ normalizeWhitespace(payload.text) # <<>>
         /\ normalizeDateOnly(payload.dueDate, IsoEngine) # NullDate
         /\ \A i \in 1..Len(nextActions') :
              /\ Len(nextActions'[i].text) <= LimitActionText
              /\ nextActions'[i].dueDate.k = "date"]_vars

\* ------------------------------------------------------------------------
\* C24. removeNotification(id) and markRead(id) on an entry of the list reach
\* the row of that notification: on every step of one of them whose write the
\* backend handles, the row of the entry (the row of its id when the entry
\* was fetched, else the row that carries its key, content and timestamp) is
\* gone after removeNotification and is read after markRead, so that a later
\* fetch agrees with the list.
\* ------------------------------------------------------------------------
RemoteRowFollowsEntry ==
  [][\A i \in 1..Len(notifications) :
       LET entry == notifications[i]
           write(op, read) ==
             [op |-> op, id |-> entry.id, type |-> NoInput.type,
              title |-> NoInput.title, message |-> NoInput.message,
              read |-> read, timestamp |-> now]
           rowOfEntry(row) ==
             IF \E named \in userNotifications : named.id = entry.id
             THEN row.id = entry.id
             ELSE /\ row.client_id = entry.clientId
                  /\ row.type = entry.type
                  /\ row.title = entry.title
                  /\ row.message = entry.message
                  /\ row.timestamp = entry.timestamp
       IN /\ (removeNotification(entry.id) /\ ServerWrites(write("delete", FALSE)))
               => \A row \in userNotifications' : ~rowOfEntry(row)
          /\ (markRead(entry.id) /\ ServerWrites(write("markRead", TRUE)))
               => \A row \in userNotifications' : rowOfEntry(row) => row.read]_vars

\* ------------------------------------------------------------------------
\* C25. After a successful submit of the form of a new case and after a
\* discard, the draft of the form is absent and stays absent until the user
\* edits the form again: no autosave timer creates it again.
\* ------------------------------------------------------------------------
DraftStaysCleared ==
  nuevo.cleared => \A draft \in settings.drafts : draft.key # DRAFT_KEY

DefaultsOnlyFillAbsentRow ==
  [][/\ (refreshCall.st = "upserting" /\ refreshCall'.st = "none"
           /\ userPreferences' # userPreferences)
        => (~userPreferences.exists /\ userPreferences' = DefaultRow)
     /\ (refreshCall.st = "read" /\ refreshCall.error
           /\ refreshCall'.st = "none")
        => (settings' = settings /\ userPreferences' = userPreferences)
     /\ (refreshCall.st = "read" /\ refreshCall'.st = "upserting")
        => (~refreshCall.error /\ ~refreshCall.prefs.exists)]_vars

\* ------------------------------------------------------------------------
\* C28. When the request of createExpediente, updateExpediente or
\* deleteExpediente ends with an error of the backend or throws, the call
\* returns an error (a violation of the unique constraint, code 23505, as
\* "El folio ya existe en base de datos.", any other error as it came), it
\* starts no fetch, and the snapshot, loading and error stay as they were.
\* ------------------------------------------------------------------------
\* what the constraints of the table answer to the request in flight
WriteOutcome ==
  IF mut.op = "insert"
    THEN WriteError(RowOfPayload(nextId, mut.payload), server, TodayLocal)
  ELSE IF mut.op = "update"
    THEN IF HasRow(mut.id)
           THEN WriteError(Overlay(RowOf(mut.id), mut.payload), server, TodayLocal)
           ELSE "PGRST116"
  ELSE "ok"

FailedMutationChangesNothing ==
  [][(mut.pc \in {"sent", "replied"} /\ mut'.pc = "idle")
       => /\ result'.kind \in {"backend", "network"}
          /\ result'.msg \notin {NoError, "ok", "23505"}
          /\ result'.kind = "backend"
               => result'.msg \in
                    {"error",
                     IF WriteOutcome = "23505"
                       THEN "El folio ya existe en base de datos."
                       ELSE WriteOutcome}
          /\ expedientes' = expedientes
          /\ fetches' = fetches
          /\ loading' = loading
          /\ error' = error]_vars

\* the backend refused a folio another device had taken: the call returned
\* the conflict, no fetch is running and the snapshot still lacks the row
FolioConflictReturned ==
  /\ result = [kind |-> "backend", msg |-> "El folio ya existe en base de datos."]
  /\ mut = Idle
  /\ fetches = {}
  /\ server # {}
  /\ expedientes # SelectAll(server)

\* ------------------------------------------------------------------------
\* C29. loading is true whenever a call of fetchExpedientes is in flight,
\* also when several calls overlap: loading = false implies that no fetch is
\* pending.
\* ------------------------------------------------------------------------
LoadingWhileFetching == ~loading => fetches = {}

\* ------------------------------------------------------------------------
\* C30. In the login form the fifth failed sign-in in a row sets a lock of
\* LockTime and puts the failure counter back to 0, an earlier failure only
\* counts; while the lock is active (lockUntil is later than the clock) no
\* submit calls signIn; a successful sign-in puts the counter and the lock
\* back to 0, in the page and in sessionStorage; and after every submit the
\* counter is between 0 and 4.
\* ------------------------------------------------------------------------
LoginLockAfterFiveFailures ==
  [][/\ (login.pc = "awaiting" /\ login'.last \in {"failed", "lock"})
          => IF login.failures + 1 = 5
             THEN /\ login'.last = "lock"
                  /\ login'.lockUntil = login.clock + LockTime
                  /\ isLocked(login')
                  /\ login'.failedAttempts = 0
                  /\ readSessionNumber(login'.failCount) = 0
                  /\ readSessionNumber(login'.lockStored) = login'.lockUntil
             ELSE /\ login'.last = "failed"
                  /\ login'.failedAttempts = login.failures + 1
                  /\ readSessionNumber(login'.failCount) = login.failures + 1
                  /\ login'.lockUntil = login.lockUntil
     /\ (login.pc = "idle" /\ login'.pc = "awaiting")
          => ~(login.lockUntil > login.clock)
     /\ (login.lockUntil > login.clock /\ login.mounted /\ login'.mounted)
          => isLocked(login')
     /\ (login.pc = "awaiting" /\ login'.last = "ok")
          => /\ login'.failedAttempts = 0 /\ login'.lockUntil = 0
             /\ readSessionNumber(login'.failCount) = 0
             /\ readSessionNumber(login'.lockStored) = 0
     /\ login'.pc = "idle" => login'.failedAttempts \in 0..4]_vars

\* five failures in a row locked the form, a second went by, and a submit
\* made during the lock was turned away without a call of signIn
SubmitTurnedAwayWhileLocked ==
  /\ login.mounted
  /\ login.last = "locked"
  /\ login.pc = "idle"
  /\ login.lockUntil > login.clock
  /\ login.clock > login.now
  /\ login.failedAttempts = 0
====
